---- MODULE Spec2Model ----
(***************************************************************************)
(* Model of the task-management application: billing-period resolution,    *)
(* due dates, grouping of stored tasks, invoice line merging, the task     *)
(* view, the loading of the configuration, the rate lookup and the task    *)
(* store.                                                                  *)
(*                                                                         *)
(* Representation choices                                                  *)
(*  - An ISO date string "YYYY-MM-DD" is the sequence of its eight digits  *)
(*    <<Y,Y,Y,Y,M,M,D,D>>; the two '-' sit at fixed positions and do not   *)
(*    influence comparisons between two such strings.                      *)
(*  - A JavaScript Date is its time value in minutes since                 *)
(*    1970-01-01T00:00Z; the host time zone is a fixed offset in minutes   *)
(*    east of UTC (no daylight-saving transitions are modelled).           *)
(*  - Other strings are strings; template strings are built with \o, so    *)
(*    that concatenation is computed, not assumed injective.               *)
(*  - hoursWorked is counted in quarter hours and rate in currency units   *)
(*    per hour, both exact integers (IEEE rounding is not modelled).       *)
(***************************************************************************)
EXTENDS Integers, Sequences, FiniteSets, TLC

VARIABLES
    invoiceDates,   \* config.invoiceDates as returned by getInvoiceDates()
    paymentTerms,   \* config.paymentTerms as returned by getPaymentTerms()
    tzOffset,       \* host time zone, minutes east of UTC
    tasks,          \* content of data/tasks.json (array of TaskEntry)
    op,             \* name of the operation that ran last
    arg,            \* its arguments
    ret,            \* its outcome
    clients,        \* config.clients as returned by getClients()
    defaultRate,    \* config.defaultRate as returned by getDefaultRate()
    storeState,     \* state of data/tasks.json: "missing", "present", "unreadable", "unparsable"
    configFile,     \* state of config.json on disk
    exampleFile,    \* state of config.example.json on disk
    cachedConfig    \* the module variable cachedConfig: <<>> is null

configVars == <<clients, defaultRate, configFile, exampleFile, cachedConfig>>

vars == <<invoiceDates, paymentTerms, tzOffset, tasks, op, arg, ret,
          clients, defaultRate, storeState, configFile, exampleFile,
          cachedConfig>>

----------------------------------------------------------------------------
(* Bounds of the model *)

MaxSched == 3       \* longest invoice-day schedule
MaxTasks == 3       \* most tasks in the store
MaxPeriodTasks == 2 \* most tasks in the store when all fall into one period
MaxClients == 2     \* most entries of config.clients
MaxSessionTasks == 2 \* most tasks added in a session of the main menu
MaxMainTasks == 2    \* most tasks in the store of the menu loop

InvoiceDayChoices == {1, 5, 10, 20, 31}
Years == {2023, 2024}
Months == {1, 2, 4, 12}
TermChoices == {15, 45}
TzChoices == {-300, 0, 60}

----------------------------------------------------------------------------
(* Generic helpers *)

Range(s) == {s[i] : i \in 1..Len(s)}

RECURSIVE SeqsUpTo(_, _)
SeqsUpTo(S, n) ==
    IF n = 0 THEN {<<>>}
    ELSE LET shorter == SeqsUpTo(S, n - 1)
         IN  shorter \cup {Append(s, x) : s \in {t \in shorter : Len(t) = n - 1}, x \in S}

\* lexicographic comparison of two sequences of integers (code-unit order):
\* -1, 0 or 1
RECURSIVE SeqCompare(_, _)
SeqCompare(a, b) ==
    IF a = <<>> /\ b = <<>> THEN 0
    ELSE IF a = <<>> THEN -1
    ELSE IF b = <<>> THEN 1
    ELSE IF Head(a) < Head(b) THEN -1
    ELSE IF Head(a) > Head(b) THEN 1
    ELSE SeqCompare(Tail(a), Tail(b))

\* [...invoiceDates].sort((a, b) => a - b): stable insertion by a - b < 0
RECURSIVE InsertNumber(_, _)
InsertNumber(x, s) ==
    IF s = <<>> THEN <<x>>
    ELSE IF x - Head(s) < 0 THEN <<x>> \o s
    ELSE <<Head(s)>> \o InsertNumber(x, Tail(s))

RECURSIVE SortNumbers(_)
SortNumbers(s) ==
    IF s = <<>> THEN <<>>
    ELSE InsertNumber(s[Len(s)], SortNumbers(SubSeq(s, 1, Len(s) - 1)))

\* Array.prototype.indexOf, 0-based, -1 when absent
IndexOf(s, x) ==
    IF \E i \in 1..Len(s) : s[i] = x
    THEN (CHOOSE i \in 1..Len(s) : s[i] = x /\ \A j \in 1..(i - 1) : s[j] # x) - 1
    ELSE -1

----------------------------------------------------------------------------
(* The JavaScript Date arithmetic used by billing.ts *)

IsLeapYear(y) == (y % 4 = 0 /\ y % 100 # 0) \/ y % 400 = 0

DaysInMonth(y, m0) ==
    IF m0 = 1 THEN (IF IsLeapYear(y) THEN 29 ELSE 28)
    ELSE IF m0 \in {3, 5, 8, 10} THEN 30 ELSE 31

\* day number of January 1st of year y, counted from 1970-01-01
DayFromYear(y) ==
    365 * (y - 1970) + ((y - 1969) \div 4) - ((y - 1901) \div 100)
        + ((y - 1601) \div 400)

RECURSIVE DaysBeforeMonth(_, _)
DaysBeforeMonth(y, m0) ==
    IF m0 = 0 THEN 0 ELSE DaysBeforeMonth(y, m0 - 1) + DaysInMonth(y, m0 - 1)

\* MakeDay(year, month, date): month and date may lie outside their ranges
MakeDay(y, m0, d) ==
    LET ym == y + (m0 \div 12)
        mn == m0 % 12
    IN  DayFromYear(ym) + DaysBeforeMonth(ym, mn) + d - 1

YearFromDay(n) ==
    LET guess == 1970 + (n \div 366)
    IN  CHOOSE y \in guess..(guess + 2) : DayFromYear(y) <= n /\ n < DayFromYear(y + 1)

MonthFromDay(n) ==
    LET y == YearFromDay(n)
        k == n - DayFromYear(y)
    IN  CHOOSE m0 \in 0..11 :
            DaysBeforeMonth(y, m0) <= k /\ k < DaysBeforeMonth(y, m0) + DaysInMonth(y, m0)

DateFromDay(n) ==
    LET y == YearFromDay(n)
    IN  n - DayFromYear(y) - DaysBeforeMonth(y, MonthFromDay(n)) + 1

MinutesPerDay == 1440

\* local calendar fields of a time value: getFullYear, getMonth, getDate
LocalDay(t, tz) == (t + tz) \div MinutesPerDay
GetFullYear(t, tz) == YearFromDay(LocalDay(t, tz))
GetMonth(t, tz) == MonthFromDay(LocalDay(t, tz))
GetDate(t, tz) == DateFromDay(LocalDay(t, tz))

\* new Date(year, month, day): local midnight of the (normalised) day
NewDateYMD(y, m0, d, tz) == MakeDay(y, m0, d) * MinutesPerDay - tz

\* digits of a date string
Pad(n, width) == [i \in 1..width |-> (n \div (10 ^ (width - i))) % 10]
ToNumber(ds) ==
    LET RECURSIVE Val(_)
        Val(s) == IF s = <<>> THEN 0 ELSE 10 * Val(SubSeq(s, 1, Len(s) - 1)) + s[Len(s)]
    IN  Val(ds)

\* `${year}-${String(month + 1).padStart(2, '0')}-${String(day).padStart(2, '0')}`
FormatYMD(y, m0, d) == Pad(y, 4) \o Pad(m0 + 1, 2) \o Pad(d, 2)

\* new Date(`${dateStr}T00:00:00`): the date-time form without offset is local time
ParseLocalMidnight(dateStr, tz) ==
    MakeDay(ToNumber(SubSeq(dateStr, 1, 4)),
            ToNumber(SubSeq(dateStr, 5, 6)) - 1,
            ToNumber(SubSeq(dateStr, 7, 8))) * MinutesPerDay - tz

\* date.toLocaleString('default', { month: 'long' })
MonthName(m0) ==
    <<"January", "February", "March", "April", "May", "June", "July",
      "August", "September", "October", "November", "December">>[m0 + 1]

\* date.toISOString().split('T')[0]: the UTC calendar day
ToISODate(t) ==
    LET n == t \div MinutesPerDay
    IN  FormatYMD(YearFromDay(n), MonthFromDay(n), DateFromDay(n))

----------------------------------------------------------------------------
(* billing.ts *)

\* the template of periodLabel
FormatLabel(currentMonthName, periodStartDay, periodEndDay, billingMonthName, billingDay) ==
    currentMonthName \o " " \o ToString(periodStartDay) \o "-" \o ToString(periodEndDay)
        \o " (Billed: " \o billingMonthName \o " " \o ToString(billingDay) \o ")"

\* the loop that finds the next invoice date after this day
NextInvoiceDay(sortedDates, day, fallback) ==
    IF \E i \in 1..Len(sortedDates) : day < sortedDates[i]
    THEN sortedDates[CHOOSE i \in 1..Len(sortedDates) :
                        /\ day < sortedDates[i]
                        /\ \A j \in 1..(i - 1) : ~(day < sortedDates[j])]
    ELSE fallback

\* variant: a task exactly on the last invoice day stays in its own month
ResolveBillingInclusive(sortedDates, year, month, day) ==
    LET lastInvoiceDate == sortedDates[Len(sortedDates)]
    IN  IF day <= lastInvoiceDate
        THEN [billingDay |-> NextInvoiceDay(sortedDates, day, lastInvoiceDate),
              billingMonth |-> month,
              billingYear |-> year]
        ELSE [billingDay |-> sortedDates[1],
              billingMonth |-> IF month + 1 > 11 THEN 0 ELSE month + 1,
              billingYear |-> IF month + 1 > 11 THEN year + 1 ELSE year]

\* variant: December rolls into January of the same year
ResolveBillingSameYear(sortedDates, year, month, day) ==
    LET lastInvoiceDate == sortedDates[Len(sortedDates)]
    IN  IF day < lastInvoiceDate
        THEN [billingDay |-> NextInvoiceDay(sortedDates, day, lastInvoiceDate),
              billingMonth |-> month,
              billingYear |-> year]
        ELSE [billingDay |-> sortedDates[1],
              billingMonth |-> IF month + 1 > 11 THEN 0 ELSE month + 1,
              billingYear |-> year]

\* the resolved billing day, month (0-indexed) and year
ResolveBilling(sortedDates, year, month, day) ==
    LET lastInvoiceDate == sortedDates[Len(sortedDates)]
    IN  IF day < lastInvoiceDate
        THEN [billingDay |-> NextInvoiceDay(sortedDates, day, lastInvoiceDate),
              billingMonth |-> month,
              billingYear |-> year]
        ELSE [billingDay |-> sortedDates[1],
              billingMonth |-> IF month + 1 > 11 THEN 0 ELSE month + 1,
              billingYear |-> IF month + 1 > 11 THEN year + 1 ELSE year]

\* variant: the period always starts at the previous invoice day
PeriodRangeFromPrevious(sortedDates, year, month, b) ==
    LET firstInvoiceDate == sortedDates[1]
        lastInvoiceDate == sortedDates[Len(sortedDates)]
    IN  IF b.billingDay = firstInvoiceDate /\ b.billingMonth # month
        THEN [periodStartDay |-> lastInvoiceDate,
              periodEndDay |-> DateFromDay(MakeDay(year, month + 1, 0))]
        ELSE LET currentIndex == IndexOf(sortedDates, b.billingDay)
             IN  [periodStartDay |->
                      IF currentIndex = 0 THEN lastInvoiceDate
                      ELSE sortedDates[currentIndex],
                  periodEndDay |-> b.billingDay - 1]

\* variant: a period that runs to the month end takes the length of the
\* month after the task's month
PeriodRangeEndOfNextMonth(sortedDates, year, month, b) ==
    LET firstInvoiceDate == sortedDates[1]
        lastInvoiceDate == sortedDates[Len(sortedDates)]
    IN  IF b.billingDay = firstInvoiceDate /\ b.billingMonth # month
        THEN [periodStartDay |-> lastInvoiceDate,
              periodEndDay |-> DateFromDay(MakeDay(year, month + 2, 0))]
        ELSE LET currentIndex == IndexOf(sortedDates, b.billingDay)
                 previousInvoiceDate ==
                     IF currentIndex = 0 THEN lastInvoiceDate
                     ELSE IF currentIndex - 1 >= 0 THEN sortedDates[currentIndex]
                     ELSE lastInvoiceDate
             IN  [periodStartDay |->
                      IF previousInvoiceDate = firstInvoiceDate
                         /\ b.billingDay # firstInvoiceDate
                      THEN 1 ELSE previousInvoiceDate,
                  periodEndDay |-> b.billingDay - 1]

\* periodStartDay and periodEndDay
PeriodRange(sortedDates, year, month, b) ==
    LET firstInvoiceDate == sortedDates[1]
        lastInvoiceDate == sortedDates[Len(sortedDates)]
    IN  IF b.billingDay = firstInvoiceDate /\ b.billingMonth # month
        THEN [periodStartDay |-> lastInvoiceDate,
              \* new Date(year, month + 1, 0).getDate()
              periodEndDay |-> DateFromDay(MakeDay(year, month + 1, 0))]
        ELSE LET currentIndex == IndexOf(sortedDates, b.billingDay)
                 previousInvoiceDate ==
                     IF currentIndex = 0 THEN lastInvoiceDate
                     ELSE IF currentIndex - 1 >= 0 THEN sortedDates[currentIndex]
                     ELSE lastInvoiceDate
             IN  [periodStartDay |->
                      IF previousInvoiceDate = firstInvoiceDate
                         /\ b.billingDay # firstInvoiceDate
                      THEN 1 ELSE previousInvoiceDate,
                  periodEndDay |-> b.billingDay - 1]

\* a variant without the test for an empty schedule, as in the earlier
\* billing.ts: the days read from the empty list are undefined
getBillingPeriodUnchecked(dateStr, schedule, tz) ==
    LET date == ParseLocalMidnight(dateStr, tz)
        year == GetFullYear(date, tz)
        month == GetMonth(date, tz)
        day == GetDate(date, tz)
        sortedDates == SortNumbers(schedule)
    IN  IF Len(sortedDates) = 0
        THEN [kind |-> "ok",
              billingDate |-> FormatYMD(year, month + 1, 0),
              periodLabel |-> "Invalid Date"]
        ELSE LET b == ResolveBilling(sortedDates, year, month, day)
                 r == PeriodRange(sortedDates, year, month, b)
                 billingDate == NewDateYMD(b.billingYear, b.billingMonth, b.billingDay, tz)
             IN  [kind |-> "ok",
                  billingDate |-> FormatYMD(b.billingYear, b.billingMonth, b.billingDay),
                  periodLabel |-> FormatLabel(MonthName(GetMonth(date, tz)),
                                              r.periodStartDay, r.periodEndDay,
                                              MonthName(GetMonth(billingDate, tz)),
                                              b.billingDay)]

\* a variant that reads the schedule in the order of the configuration
getBillingPeriodUnsorted(dateStr, schedule, tz) ==
    LET date == ParseLocalMidnight(dateStr, tz)
        year == GetFullYear(date, tz)
        month == GetMonth(date, tz)
        day == GetDate(date, tz)
        sortedDates == schedule
    IN  IF Len(sortedDates) = 0
        THEN [kind |-> "error", message |-> "No invoice dates configured"]
        ELSE LET b == ResolveBilling(sortedDates, year, month, day)
                 r == PeriodRange(sortedDates, year, month, b)
                 billingDate == NewDateYMD(b.billingYear, b.billingMonth, b.billingDay, tz)
             IN  [kind |-> "ok",
                  billingDate |-> FormatYMD(b.billingYear, b.billingMonth, b.billingDay),
                  periodLabel |-> FormatLabel(MonthName(GetMonth(date, tz)),
                                              r.periodStartDay, r.periodEndDay,
                                              MonthName(GetMonth(billingDate, tz)),
                                              b.billingDay)]

\* getBillingPeriod(dateStr) with the schedule getInvoiceDates() returned
getBillingPeriod(dateStr, schedule, tz) ==
    LET date == ParseLocalMidnight(dateStr, tz)
        year == GetFullYear(date, tz)
        month == GetMonth(date, tz)
        day == GetDate(date, tz)
        sortedDates == SortNumbers(schedule)
    IN  IF Len(sortedDates) = 0
        THEN [kind |-> "error", message |-> "No invoice dates configured"]
        ELSE LET b == ResolveBilling(sortedDates, year, month, day)
                 r == PeriodRange(sortedDates, year, month, b)
                 billingDate == NewDateYMD(b.billingYear, b.billingMonth, b.billingDay, tz)
             IN  [kind |-> "ok",
                  billingDate |-> FormatYMD(b.billingYear, b.billingMonth, b.billingDay),
                  periodLabel |-> FormatLabel(MonthName(GetMonth(date, tz)),
                                              r.periodStartDay, r.periodEndDay,
                                              MonthName(GetMonth(billingDate, tz)),
                                              b.billingDay)]

\* calculateDueDate(billingDateStr) with the terms getPaymentTerms() returned
calculateDueDate(billingDateStr, terms, tz) ==
    LET billingDate == ParseLocalMidnight(billingDateStr, tz)
        \* dueDate.setDate(dueDate.getDate() + paymentTerms), local time of day kept
        dueDate == MakeDay(GetFullYear(billingDate, tz), GetMonth(billingDate, tz),
                           GetDate(billingDate, tz) + terms) * MinutesPerDay
                       + ((billingDate + tz) % MinutesPerDay) - tz
    IN  ToISODate(dueDate)

----------------------------------------------------------------------------
(* config.ts.  A JSON value is kept as far as loadConfig and its callers   *)
(* tell values apart: its type, the items of an array, the value of a      *)
(* number.                                                                 *)

Undefined == [type |-> "undefined", items |-> <<>>, num |-> 0]
Null == [type |-> "null", items |-> <<>>, num |-> 0]
NumberValue(n) == [type |-> "number", items |-> <<>>, num |-> n]
ArrayValue(s) == [type |-> "array", items |-> s, num |-> 0]

\* !v is false
Truthy(v) == v.type = "array" \/ (v.type = "number" /\ v.num # 0)
\* Array.isArray(v)
IsArray(v) == v.type = "array"
\* typeof v !== 'number' || v <= 0 is false
IsPositiveNumber(v) == v.type = "number" /\ v.num > 0

DEFAULT_CONFIG ==
    [clients |-> ArrayValue(<<>>),
     activityTypes |-> ArrayValue(<<"Code Review", "Implementation",
                                    "Meetings/Syncs", "Planning">>),
     defaultRate |-> NumberValue(100),
     invoiceDates |-> ArrayValue(<<1, 15>>),
     paymentTerms |-> NumberValue(15)]

\* the object {} : every property of AppConfig is missing
EmptyObject ==
    [clients |-> Undefined, activityTypes |-> Undefined,
     defaultRate |-> Undefined, invoiceDates |-> Undefined,
     paymentTerms |-> Undefined]

\* A file on disk: "missing" (readFile fails with ENOENT), "unreadable"
\* (readFile fails with another code), "unparsable" (JSON.parse throws),
\* "null" (the text null) or "object" (the text of the object in value).
File(kind, value) == [kind |-> kind, value |-> value]
MissingFile == File("missing", EmptyObject)

\* the section "Validate config structure" of loadConfig
ValidateStructure(config) ==
    [clients |-> IF ~Truthy(config.clients) \/ ~IsArray(config.clients)
                 THEN DEFAULT_CONFIG.clients ELSE config.clients,
     activityTypes |-> IF ~Truthy(config.activityTypes) \/ ~IsArray(config.activityTypes)
                       THEN DEFAULT_CONFIG.activityTypes ELSE config.activityTypes,
     defaultRate |-> IF ~IsPositiveNumber(config.defaultRate)
                     THEN DEFAULT_CONFIG.defaultRate ELSE config.defaultRate,
     invoiceDates |-> IF \/ ~Truthy(config.invoiceDates)
                         \/ ~IsArray(config.invoiceDates)
                         \/ Len(config.invoiceDates.items) = 0
                      THEN DEFAULT_CONFIG.invoiceDates ELSE config.invoiceDates,
     paymentTerms |-> IF ~IsPositiveNumber(config.paymentTerms)
                      THEN DEFAULT_CONFIG.paymentTerms ELSE config.paymentTerms]

\* what loadConfig leaves behind: the value it returns (<<>> is null,
\* <<c>> the configuration c), the new cachedConfig and the new config.json
Loaded(config, file) == [config |-> config, cachedConfig |-> config, configFile |-> file]

\* loadConfig(); writeOk tells whether fs.writeFile of config.json succeeds
loadConfig(cached, config, example, writeOk) ==
    IF cached # <<>>
    THEN Loaded(cached, config)
    ELSE IF config.kind = "object"
    THEN Loaded(<<ValidateStructure(config.value)>>, config)
    ELSE IF config.kind = "missing"
    THEN IF example.kind = "object" /\ writeOk
         THEN Loaded(<<example.value>>, example)
         ELSE IF example.kind = "null" /\ writeOk
         THEN Loaded(<<>>, example)
         ELSE Loaded(<<DEFAULT_CONFIG>>, config)
    ELSE \* read error other than ENOENT, SyntaxError, or TypeError on null
         Loaded(<<DEFAULT_CONFIG>>, config)

\* getInvoiceDates(): config.invoiceDates of the loaded configuration
getInvoiceDates(loaded) ==
    IF loaded.config = <<>>
    THEN [kind |-> "error", message |-> "Cannot read properties of null", value |-> Undefined]
    ELSE [kind |-> "ok", message |-> "", value |-> loaded.config[1].invoiceDates]

----------------------------------------------------------------------------
(* Inputs *)

\* the configuration whose getters return the given values
ConfigOf(rates, rate, schedule, terms) ==
    [DEFAULT_CONFIG EXCEPT !.clients = ArrayValue(rates),
                           !.defaultRate = NumberValue(rate),
                           !.invoiceDates = ArrayValue(schedule),
                           !.paymentTerms = NumberValue(terms)]

\* a process that has loaded its configuration from a valid config.json
ConfigIsLoaded ==
    /\ cachedConfig = <<ConfigOf(clients, defaultRate, invoiceDates, paymentTerms)>>
    /\ configFile = File("object", cachedConfig[1])
    /\ exampleFile = MissingFile

\* no client is configured and no task has been stored yet
LoadedDefaults ==
    /\ clients = DEFAULT_CONFIG.clients.items
    /\ defaultRate = DEFAULT_CONFIG.defaultRate.num
    /\ storeState = "missing"
    /\ ConfigIsLoaded

Schedules == {s \in SeqsUpTo(InvoiceDayChoices, MaxSched) :
                 /\ Len(s) >= 1
                 /\ \A i, j \in 1..Len(s) : i # j => s[i] # s[j]}

Dates == UNION {{FormatYMD(y, m - 1, d) : d \in 1..DaysInMonth(y, m - 1)} :
                    y \in Years, m \in Months}

----------------------------------------------------------------------------
(* The billing functions on their own: a configuration and a host are      *)
(* drawn, then the two functions are called on dates.                      *)

InitBilling ==
    /\ invoiceDates \in Schedules
    /\ paymentTerms \in TermChoices
    /\ tzOffset \in TzChoices
    /\ tasks = <<>>
    /\ op = "start"
    /\ arg = <<>>
    /\ ret = <<>>
    /\ LoadedDefaults

GetBillingPeriod(dateStr) ==
    /\ op = "start"
    /\ op' = "getBillingPeriod"
    /\ arg' = dateStr
    /\ ret' = getBillingPeriod(dateStr, invoiceDates, tzOffset)
    /\ UNCHANGED <<invoiceDates, paymentTerms, tzOffset, tasks>>
    /\ UNCHANGED <<storeState, configVars>>

CalculateDueDate(billingDateStr) ==
    /\ op = "start"
    /\ op' = "calculateDueDate"
    /\ arg' = billingDateStr
    /\ ret' = calculateDueDate(billingDateStr, paymentTerms, tzOffset)
    /\ UNCHANGED <<invoiceDates, paymentTerms, tzOffset, tasks>>
    /\ UNCHANGED <<storeState, configVars>>

\* the caller has consumed the outcome and is ready for the next call
Return ==
    /\ op # "start"
    /\ op' = "start"
    /\ arg' = <<>>
    /\ ret' = <<>>
    /\ UNCHANGED <<invoiceDates, paymentTerms, tzOffset, tasks>>
    /\ UNCHANGED <<storeState, configVars>>

NextBilling ==
    \/ \E d \in Dates : GetBillingPeriod(d)
    \/ \E d \in Dates : CalculateDueDate(d)
    \/ Return

SpecBilling == InitBilling /\ [][NextBilling]_vars

----------------------------------------------------------------------------
(* The configuration as the process finds it on disk: config.json and      *)
(* config.example.json are in any state, nothing is cached, and the        *)
(* schedule of getBillingPeriod is the one getInvoiceDates() hands out.    *)
(* The variables of the getters are not read here.                         *)

InvoiceDatesValues ==
    {Undefined, Null, NumberValue(15), ArrayValue(<<>>),
     ArrayValue(<<1, 15>>), ArrayValue(<<20, 5>>)}

\* the dates of February and December 2024
ConfigDates ==
    UNION {{FormatYMD(2024, m0, d) : d \in 1..DaysInMonth(2024, m0)} : m0 \in {1, 11}}

ValidConfig == ConfigOf(<<[client |-> "Acme", rate |-> 150]>>, 120, <<1, 15>>, 45)

ConfigObjects ==
    {[ValidConfig EXCEPT !.invoiceDates = v] : v \in InvoiceDatesValues}
    \cup {[EmptyObject EXCEPT !.invoiceDates = v] : v \in InvoiceDatesValues}
    \cup {[ValidConfig EXCEPT !.clients = Null],
          [ValidConfig EXCEPT !.activityTypes = NumberValue(1)],
          [ValidConfig EXCEPT !.defaultRate = NumberValue(0)],
          [ValidConfig EXCEPT !.paymentTerms = Undefined]}

Files ==
    {File(k, EmptyObject) : k \in {"missing", "unreadable", "unparsable", "null"}}
    \cup {File("object", o) : o \in ConfigObjects}

InitConfig ==
    /\ configFile \in Files
    /\ exampleFile \in Files
    /\ cachedConfig = <<>>
    /\ invoiceDates = DEFAULT_CONFIG.invoiceDates.items
    /\ paymentTerms = DEFAULT_CONFIG.paymentTerms.num
    /\ clients = DEFAULT_CONFIG.clients.items
    /\ defaultRate = DEFAULT_CONFIG.defaultRate.num
    /\ tzOffset = 0
    /\ tasks = <<>>
    /\ storeState = "missing"
    /\ op = "start"
    /\ arg = <<>>
    /\ ret = <<>>

LoadConfig ==
    /\ op = "start"
    /\ \E writeOk \in BOOLEAN :
          LET loaded == loadConfig(cachedConfig, configFile, exampleFile, writeOk)
          IN  /\ op' = "loadConfig"
              /\ arg' = <<>>
              /\ ret' = [kind |-> "ok", config |-> loaded.config]
              /\ cachedConfig' = loaded.cachedConfig
              /\ configFile' = loaded.configFile
    /\ UNCHANGED <<invoiceDates, paymentTerms, tzOffset, tasks>>
    /\ UNCHANGED <<storeState, clients, defaultRate, exampleFile>>

GetInvoiceDates ==
    /\ op = "start"
    /\ \E writeOk \in BOOLEAN :
          LET loaded == loadConfig(cachedConfig, configFile, exampleFile, writeOk)
          IN  /\ op' = "getInvoiceDates"
              /\ arg' = <<>>
              /\ ret' = getInvoiceDates(loaded)
              /\ cachedConfig' = loaded.cachedConfig
              /\ configFile' = loaded.configFile
    /\ UNCHANGED <<invoiceDates, paymentTerms, tzOffset, tasks>>
    /\ UNCHANGED <<storeState, clients, defaultRate, exampleFile>>

\* getBillingPeriod(dateStr), its call of getInvoiceDates() included;
\* spreading a value that is not an array throws a TypeError
GetBillingPeriodOfConfig(dateStr) ==
    /\ op = "start"
    /\ \E writeOk \in BOOLEAN :
          LET loaded == loadConfig(cachedConfig, configFile, exampleFile, writeOk)
              dates == getInvoiceDates(loaded)
          IN  /\ op' = "getBillingPeriod"
              /\ arg' = [dateStr |-> dateStr, invoiceDates |-> dates.value]
              /\ ret' = IF dates.kind = "error"
                        THEN [kind |-> "error", message |-> dates.message]
                        ELSE IF ~IsArray(dates.value)
                        THEN [kind |-> "error", message |-> "invoiceDates is not iterable"]
                        ELSE getBillingPeriod(dateStr, dates.value.items, tzOffset)
              /\ cachedConfig' = loaded.cachedConfig
              /\ configFile' = loaded.configFile
    /\ UNCHANGED <<invoiceDates, paymentTerms, tzOffset, tasks>>
    /\ UNCHANGED <<storeState, clients, defaultRate, exampleFile>>

\* the process ends and a new one starts: the module variable is null again
Restart ==
    /\ op = "start"
    /\ cachedConfig # <<>>
    /\ cachedConfig' = <<>>
    /\ UNCHANGED <<invoiceDates, paymentTerms, tzOffset, tasks, op, arg, ret>>
    /\ UNCHANGED <<storeState, clients, defaultRate, configFile, exampleFile>>

NextConfig ==
    \/ LoadConfig
    \/ GetInvoiceDates
    \/ \E d \in ConfigDates : GetBillingPeriodOfConfig(d)
    \/ Restart
    \/ Return

SpecConfig == InitConfig /\ [][NextConfig]_vars

----------------------------------------------------------------------------
(* The configuration cache of one process while config.json is edited      *)
(* behind its back: the getters are called in any order, and between two   *)
(* calls the file on disk may be replaced by any other content.            *)

\* getClients(): config.clients of the loaded configuration
getClients(loaded) ==
    IF loaded.config = <<>>
    THEN [kind |-> "error", message |-> "Cannot read properties of null", value |-> Undefined]
    ELSE [kind |-> "ok", message |-> "", value |-> loaded.config[1].clients]

\* getDefaultRate(): config.defaultRate of the loaded configuration
getDefaultRate(loaded) ==
    IF loaded.config = <<>>
    THEN [kind |-> "error", message |-> "Cannot read properties of null", value |-> Undefined]
    ELSE [kind |-> "ok", message |-> "", value |-> loaded.config[1].defaultRate]

\* getPaymentTerms(): config.paymentTerms of the loaded configuration
getPaymentTerms(loaded) ==
    IF loaded.config = <<>>
    THEN [kind |-> "error", message |-> "Cannot read properties of null", value |-> Undefined]
    ELSE [kind |-> "ok", message |-> "", value |-> loaded.config[1].paymentTerms]

OtherConfig == ConfigOf(<<[client |-> "Beta", rate |-> 90]>>, 80, <<20, 5>>, 30)

CacheFiles ==
    {File(k, EmptyObject) : k \in {"missing", "unparsable", "null"}}
    \cup {File("object", o) :
            o \in {ValidConfig, OtherConfig, [ValidConfig EXCEPT !.paymentTerms = Undefined]}}

InitCache ==
    /\ configFile \in CacheFiles
    /\ exampleFile \in CacheFiles
    /\ cachedConfig = <<>>
    /\ invoiceDates = DEFAULT_CONFIG.invoiceDates.items
    /\ paymentTerms = DEFAULT_CONFIG.paymentTerms.num
    /\ clients = DEFAULT_CONFIG.clients.items
    /\ defaultRate = DEFAULT_CONFIG.defaultRate.num
    /\ tzOffset = 0
    /\ tasks = <<>>
    /\ storeState = "missing"
    /\ op = "start"
    /\ arg = <<>>
    /\ ret = <<>>

GetClients ==
    /\ op = "start"
    /\ \E writeOk \in BOOLEAN :
          LET loaded == loadConfig(cachedConfig, configFile, exampleFile, writeOk)
          IN  /\ op' = "getClients"
              /\ arg' = <<>>
              /\ ret' = getClients(loaded)
              /\ cachedConfig' = loaded.cachedConfig
              /\ configFile' = loaded.configFile
    /\ UNCHANGED <<invoiceDates, paymentTerms, tzOffset, tasks>>
    /\ UNCHANGED <<storeState, clients, defaultRate, exampleFile>>

GetDefaultRate ==
    /\ op = "start"
    /\ \E writeOk \in BOOLEAN :
          LET loaded == loadConfig(cachedConfig, configFile, exampleFile, writeOk)
          IN  /\ op' = "getDefaultRate"
              /\ arg' = <<>>
              /\ ret' = getDefaultRate(loaded)
              /\ cachedConfig' = loaded.cachedConfig
              /\ configFile' = loaded.configFile
    /\ UNCHANGED <<invoiceDates, paymentTerms, tzOffset, tasks>>
    /\ UNCHANGED <<storeState, clients, defaultRate, exampleFile>>

GetPaymentTerms ==
    /\ op = "start"
    /\ \E writeOk \in BOOLEAN :
          LET loaded == loadConfig(cachedConfig, configFile, exampleFile, writeOk)
          IN  /\ op' = "getPaymentTerms"
              /\ arg' = <<>>
              /\ ret' = getPaymentTerms(loaded)
              /\ cachedConfig' = loaded.cachedConfig
              /\ configFile' = loaded.configFile
    /\ UNCHANGED <<invoiceDates, paymentTerms, tzOffset, tasks>>
    /\ UNCHANGED <<storeState, clients, defaultRate, exampleFile>>

\* somebody replaces the content of config.json while the process runs
ChangeConfigFile(file) ==
    /\ op = "start"
    /\ configFile # file
    /\ configFile' = file
    /\ UNCHANGED <<invoiceDates, paymentTerms, tzOffset, tasks, op, arg, ret>>
    /\ UNCHANGED <<storeState, clients, defaultRate, exampleFile, cachedConfig>>

NextCache ==
    \/ LoadConfig
    \/ GetClients
    \/ GetDefaultRate
    \/ GetInvoiceDates
    \/ GetPaymentTerms
    \/ \E file \in CacheFiles : ChangeConfigFile(file)
    \/ Restart
    \/ Return

SpecCache == InitCache /\ [][NextCache]_vars

----------------------------------------------------------------------------
(* Strings of the task records.  The code units and the collation keys of  *)
(* the strings that occur as activity types and as client names are        *)
(* tabulated, so that `<` on strings, String.prototype.localeCompare, trim *)
(* and toLowerCase can be computed.                                        *)

CodeUnits(str) ==
    CASE str = "dev" -> <<100, 101, 118>>
      [] str = "dev|" -> <<100, 101, 118, 124>>
      [] str = "Test" -> <<84, 101, 115, 116>>
      [] str = "Acme" -> <<65, 99, 109, 101>>
      [] str = "acme" -> <<97, 99, 109, 101>>
      [] str = "ACME" -> <<65, 67, 77, 69>>
      [] str = " Acme " -> <<32, 65, 99, 109, 101, 32>>
      [] str = " Acme" -> <<32, 65, 99, 109, 101>>
      [] str = "Beta" -> <<66, 101, 116, 97>>
      [] str = "Zed" -> <<90, 101, 100>>
      [] str = "09:00:00" -> <<48, 57, 58, 48, 48, 58, 48, 48>>
      [] str = "17:30:00" -> <<49, 55, 58, 51, 48, 58, 48, 48>>
      [] OTHER -> <<>>

Lower(u) == IF u >= 65 /\ u <= 90 THEN u + 32 ELSE u

\* collation of localeCompare: letters compare without case first
\* (punctuation sorts before letters), then lower case before upper case
Primary(str) ==
    [i \in 1..Len(CodeUnits(str)) |->
        IF Lower(CodeUnits(str)[i]) >= 97 /\ Lower(CodeUnits(str)[i]) <= 122
        THEN Lower(CodeUnits(str)[i]) ELSE 0]
Tertiary(str) ==
    [i \in 1..Len(CodeUnits(str)) |->
        IF CodeUnits(str)[i] >= 65 /\ CodeUnits(str)[i] <= 90 THEN 1 ELSE 0]

\* a.localeCompare(b) on activity types: negative, zero or positive
LocaleCompare(a, b) ==
    IF SeqCompare(Primary(a), Primary(b)) # 0
    THEN SeqCompare(Primary(a), Primary(b))
    ELSE SeqCompare(Tertiary(a), Tertiary(b))

\* a.localeCompare(b) on date strings: digits collate in numeric order
DateCompare(a, b) == SeqCompare(a, b)

----------------------------------------------------------------------------
(* rates.ts *)

\* white space that String.prototype.trim removes: tab, line feed, carriage
\* return, space
IsWhiteSpace(u) == u \in {9, 10, 13, 32}

\* str.trim() on code units
RECURSIVE TrimStart(_)
TrimStart(u) ==
    IF u # <<>> /\ IsWhiteSpace(u[1]) THEN TrimStart(Tail(u)) ELSE u
RECURSIVE TrimEnd(_)
TrimEnd(u) ==
    IF u # <<>> /\ IsWhiteSpace(u[Len(u)]) THEN TrimEnd(SubSeq(u, 1, Len(u) - 1)) ELSE u
Trim(u) == TrimEnd(TrimStart(u))

\* str.toLowerCase() on code units
ToLowerCase(u) == [i \in 1..Len(u) |-> Lower(u[i])]

\* clients.find(...): the index of the first element that satisfies the
\* test, 0 for undefined
FindClient(rates, trimmedClient) ==
    LET found == {i \in 1..Len(rates) :
                     ToLowerCase(CodeUnits(rates[i].client)) = ToLowerCase(trimmedClient)}
    IN  IF found = {} THEN 0 ELSE CHOOSE i \in found : \A j \in found : i <= j

\* variant: the name is compared as it was typed
getRateForClientUntrimmed(client, defaultRateArg, rates, configuredDefault) ==
    LET trimmedClient == CodeUnits(client)
        clientRate == FindClient(rates, trimmedClient)
    IN  IF clientRate # 0 THEN rates[clientRate].rate
        ELSE IF defaultRateArg # <<>> THEN defaultRateArg[1]
        ELSE configuredDefault

\* getRateForClient(client, defaultRate?) with the values that getClients()
\* and getDefaultRate() return; defaultRateArg is <<>> when the argument is
\* not given
getRateForClient(client, defaultRateArg, rates, configuredDefault) ==
    LET trimmedClient == Trim(CodeUnits(client))
        clientRate == FindClient(rates, trimmedClient)
    IN  IF clientRate # 0 THEN rates[clientRate].rate
        ELSE IF defaultRateArg # <<>> THEN defaultRateArg[1]
        ELSE configuredDefault

\* The rate lookup on its own: a configuration with up to MaxClients client
\* rates, names differing in case and in surrounding blanks.
ConfiguredNames == {"Acme", "ACME", " Acme", "Beta"}
RateChoices == {150, 200}
DefaultRateChoices == {100, 120}
ClientRates == [client : ConfiguredNames, rate : RateChoices]
RateTables == SeqsUpTo(ClientRates, MaxClients)
TypedNames == {"Acme", "acme", " Acme ", "Beta", "Zed"}
DefaultRateArgs == {<<>>, <<0>>, <<90>>}

InitRates ==
    /\ clients \in RateTables
    /\ defaultRate \in DefaultRateChoices
    /\ invoiceDates = DEFAULT_CONFIG.invoiceDates.items
    /\ paymentTerms = DEFAULT_CONFIG.paymentTerms.num
    /\ ConfigIsLoaded
    /\ tzOffset = 0
    /\ tasks = <<>>
    /\ storeState = "missing"
    /\ op = "start"
    /\ arg = <<>>
    /\ ret = <<>>

GetRateForClient(client, defaultRateArg) ==
    /\ op = "start"
    /\ op' = "getRateForClient"
    /\ arg' = [client |-> client, defaultRate |-> defaultRateArg]
    /\ ret' = getRateForClient(client, defaultRateArg, clients, defaultRate)
    /\ UNCHANGED <<invoiceDates, paymentTerms, tzOffset, tasks>>
    /\ UNCHANGED <<storeState, configVars>>

NextRates ==
    \/ \E c \in TypedNames, d \in DefaultRateArgs : GetRateForClient(c, d)
    \/ Return

SpecRates == InitRates /\ [][NextRates]_vars

----------------------------------------------------------------------------
(* invoice.ts *)

\* tasks.filter((task) => task.client === client)
FilterClient(ts, client) == SelectSeq(ts, LAMBDA t : t.client = client)

\* variant: a task replaces the bucket of its billing date
RECURSIVE GroupReplacingBucket(_, _, _)
GroupReplacingBucket(ts, schedule, tz) ==
    IF ts = <<>> THEN <<>>
    ELSE LET grouped == GroupReplacingBucket(SubSeq(ts, 1, Len(ts) - 1), schedule, tz)
             task == ts[Len(ts)]
             client == task.client
             billingKey == getBillingPeriod(task.date, schedule, tz).billingDate
             clientGroup == IF client \in DOMAIN grouped THEN grouped[client] ELSE <<>>
         IN  [c \in DOMAIN grouped \cup {client} |->
                 IF c = client
                 THEN [k \in DOMAIN clientGroup \cup {billingKey} |->
                          IF k = billingKey THEN <<task>> ELSE clientGroup[k]]
                 ELSE grouped[c]]

\* variant: buckets are keyed by the task's own date
RECURSIVE GroupByTaskDate(_, _, _)
GroupByTaskDate(ts, schedule, tz) ==
    IF ts = <<>> THEN <<>>
    ELSE LET grouped == GroupByTaskDate(SubSeq(ts, 1, Len(ts) - 1), schedule, tz)
             task == ts[Len(ts)]
             client == task.client
             billingKey == task.date
             clientGroup == IF client \in DOMAIN grouped THEN grouped[client] ELSE <<>>
             taskGroup == IF billingKey \in DOMAIN clientGroup
                          THEN clientGroup[billingKey] ELSE <<>>
         IN  [c \in DOMAIN grouped \cup {client} |->
                 IF c = client
                 THEN [k \in DOMAIN clientGroup \cup {billingKey} |->
                          IF k = billingKey THEN Append(taskGroup, task)
                          ELSE clientGroup[k]]
                 ELSE grouped[c]]

\* groupTasksByClientAndBillingPeriod: client -> billing date -> tasks
RECURSIVE groupTasksByClientAndBillingPeriod(_, _, _)
groupTasksByClientAndBillingPeriod(ts, schedule, tz) ==
    IF ts = <<>> THEN <<>>
    ELSE LET grouped == groupTasksByClientAndBillingPeriod(
                            SubSeq(ts, 1, Len(ts) - 1), schedule, tz)
             task == ts[Len(ts)]
             client == task.client
             billingKey == getBillingPeriod(task.date, schedule, tz).billingDate
             clientGroup == IF client \in DOMAIN grouped THEN grouped[client] ELSE <<>>
             taskGroup == IF billingKey \in DOMAIN clientGroup
                          THEN clientGroup[billingKey] ELSE <<>>
         IN  [c \in DOMAIN grouped \cup {client} |->
                 IF c = client
                 THEN [k \in DOMAIN clientGroup \cup {billingKey} |->
                          IF k = billingKey THEN Append(taskGroup, task)
                          ELSE clientGroup[k]]
                 ELSE grouped[c]]

\* task.ticketNumber || ''   (ticketNumber is <<>> when the field is absent)
TicketKey(task) == IF task.ticketNumber = <<>> THEN "" ELSE task.ticketNumber[1]

\* `${task.activityType}|${ticketKey}`
MergeKey(task) == task.activityType \o "|" \o TicketKey(task)

\* variant: the rate of a line item follows the task merged last
RECURSIVE MergeTasksLastRate(_)
MergeTasksLastRate(periodTasks) ==
    IF periodTasks = <<>> THEN <<>>
    ELSE LET tasksByKey == MergeTasksLastRate(SubSeq(periodTasks, 1, Len(periodTasks) - 1))
             task == periodTasks[Len(periodTasks)]
             mergeKey == MergeKey(task)
             withKey == IF \E i \in 1..Len(tasksByKey) : tasksByKey[i].key = mergeKey
                        THEN tasksByKey
                        ELSE Append(tasksByKey,
                                    [key |-> mergeKey,
                                     date |-> task.date,
                                     activityType |-> task.activityType,
                                     ticketNumber |-> task.ticketNumber,
                                     totalHours |-> 0,
                                     rate |-> task.rate,
                                     tasks |-> <<>>])
         IN  [i \in 1..Len(withKey) |->
                 IF withKey[i].key = mergeKey
                 THEN [withKey[i] EXCEPT
                          !.totalHours = @ + task.hoursWorked,
                          !.tasks = Append(@, task),
                          !.rate = task.rate,
                          !.date = IF SeqCompare(task.date, @) < 0 THEN task.date ELSE @]
                 ELSE withKey[i]]

\* the loop over periodTasks: the values of tasksByKey in insertion order
RECURSIVE MergeTasks(_)
MergeTasks(periodTasks) ==
    IF periodTasks = <<>> THEN <<>>
    ELSE LET tasksByKey == MergeTasks(SubSeq(periodTasks, 1, Len(periodTasks) - 1))
             task == periodTasks[Len(periodTasks)]
             mergeKey == MergeKey(task)
             withKey == IF \E i \in 1..Len(tasksByKey) : tasksByKey[i].key = mergeKey
                        THEN tasksByKey
                        ELSE Append(tasksByKey,
                                    [key |-> mergeKey,
                                     date |-> task.date,
                                     activityType |-> task.activityType,
                                     ticketNumber |-> task.ticketNumber,
                                     totalHours |-> 0,
                                     rate |-> task.rate,
                                     tasks |-> <<>>])
         IN  [i \in 1..Len(withKey) |->
                 IF withKey[i].key = mergeKey
                 THEN [withKey[i] EXCEPT
                          !.totalHours = @ + task.hoursWorked,
                          !.tasks = Append(@, task),
                          !.date = IF SeqCompare(task.date, @) < 0 THEN task.date ELSE @]
                 ELSE withKey[i]]

\* variant: the comparator looks at the date only
CompareMergedByDateOnly(a, b) == DateCompare(a.date, b.date)

\* the comparator of mergedTasks.sort: by date, then by activity type
CompareMerged(a, b) ==
    IF DateCompare(a.date, b.date) # 0 THEN DateCompare(a.date, b.date)
    ELSE LocaleCompare(a.activityType, b.activityType)

RECURSIVE InsertMerged(_, _)
InsertMerged(x, s) ==
    IF s = <<>> THEN <<x>>
    ELSE IF CompareMerged(x, Head(s)) < 0 THEN <<x>> \o s
    ELSE <<Head(s)>> \o InsertMerged(x, Tail(s))

\* Array.from(tasksByKey.values()).sort(...): stable
RECURSIVE SortMerged(_)
SortMerged(s) ==
    IF s = <<>> THEN <<>>
    ELSE InsertMerged(s[Len(s)], SortMerged(SubSeq(s, 1, Len(s) - 1)))

\* totalHours and totalAmount accumulated over mergedTasks
RECURSIVE InvoiceTotalHours(_)
InvoiceTotalHours(mergedTasks) ==
    IF mergedTasks = <<>> THEN 0
    ELSE InvoiceTotalHours(SubSeq(mergedTasks, 1, Len(mergedTasks) - 1))
             + mergedTasks[Len(mergedTasks)].totalHours

RECURSIVE InvoiceTotalAmount(_)
InvoiceTotalAmount(mergedTasks) ==
    IF mergedTasks = <<>> THEN 0
    ELSE InvoiceTotalAmount(SubSeq(mergedTasks, 1, Len(mergedTasks) - 1))
             + mergedTasks[Len(mergedTasks)].totalHours * mergedTasks[Len(mergedTasks)].rate

\* displayInvoice from the line items on: what it prints for the merged and
\* sorted line items of a period whose first stored task is firstTask
InvoiceOfLines(client, billingDate, firstTask, mergedTasks, schedule, terms, tz) ==
    [kind |-> "invoice",
     client |-> client,
     invoiceDate |-> billingDate,
     dueDate |-> calculateDueDate(billingDate, terms, tz),
     periodLabel |-> getBillingPeriod(firstTask.date, schedule, tz).periodLabel,
     mergedTasks |-> mergedTasks,
     totalHours |-> InvoiceTotalHours(mergedTasks),
     totalAmount |-> InvoiceTotalAmount(mergedTasks)]

\* displayInvoice from const periodTasks = clientPeriods.get(billingDate) on
InvoiceOfPeriod(client, billingDate, periodTasks, schedule, terms, tz) ==
    IF Len(periodTasks) = 0
    THEN [kind |-> "notFound", message |-> "No tasks found for billing period"]
    ELSE InvoiceOfLines(client, billingDate, periodTasks[1],
                        SortMerged(MergeTasks(periodTasks)), schedule, terms, tz)

\* displayInvoice from const clientPeriods = grouped.get(client) on
InvoiceOfGrouped(client, billingDate, grouped, schedule, terms, tz) ==
    IF client \notin DOMAIN grouped \/ billingDate \notin DOMAIN grouped[client]
    THEN [kind |-> "notFound", message |-> "No billing periods found for billing period"]
    ELSE InvoiceOfPeriod(client, billingDate, grouped[client][billingDate],
                         schedule, terms, tz)

\* displayInvoice(client, billingDate) on the loaded tasks: what it prints
displayInvoice(client, billingDate, stored, schedule, terms, tz) ==
    LET clientTasks == FilterClient(stored, client)
    IN  IF Len(clientTasks) = 0
        THEN [kind |-> "notFound", message |-> "No tasks found for client"]
        ELSE IF Len(schedule) = 0
        THEN [kind |-> "error", message |-> "No invoice dates configured"]
        ELSE InvoiceOfGrouped(client, billingDate,
                              groupTasksByClientAndBillingPeriod(clientTasks, schedule, tz),
                              schedule, terms, tz)

\* periods.add(billingDate) for each task in turn: a Set keeps the order of
\* first insertion and ignores a value it already holds
RECURSIVE BillingDatesOf(_, _, _)
BillingDatesOf(clientTasks, schedule, tz) ==
    IF clientTasks = <<>> THEN <<>>
    ELSE LET periods == BillingDatesOf(SubSeq(clientTasks, 1, Len(clientTasks) - 1),
                                       schedule, tz)
             billingDate == getBillingPeriod(clientTasks[Len(clientTasks)].date,
                                             schedule, tz).billingDate
         IN  IF billingDate \in Range(periods) THEN periods
             ELSE Append(periods, billingDate)

\* Array.prototype.sort() without comparator on date strings: ascending by
\* code units, stable
RECURSIVE InsertDateString(_, _)
InsertDateString(x, s) ==
    IF s = <<>> THEN <<x>>
    ELSE IF SeqCompare(x, s[Len(s)]) >= 0 THEN Append(s, x)
    ELSE Append(InsertDateString(x, SubSeq(s, 1, Len(s) - 1)), s[Len(s)])

RECURSIVE SortDateStrings(_)
SortDateStrings(s) ==
    IF s = <<>> THEN <<>>
    ELSE InsertDateString(s[Len(s)], SortDateStrings(SubSeq(s, 1, Len(s) - 1)))

\* variant: the tasks are not filtered by client
getBillingPeriodsOfAllClients(ts, client, schedule, tz) ==
    LET clientTasks == ts
    IN  IF Len(schedule) = 0 /\ clientTasks # <<>>
        THEN [kind |-> "error", message |-> "No invoice dates configured"]
        ELSE [kind |-> "ok",
              periods |-> SortDateStrings(BillingDatesOf(clientTasks, schedule, tz)),
              resolved |-> [i \in 1..Len(clientTasks) |-> clientTasks[i].id]]

\* getBillingPeriodsForClient(tasks, client); resolved lists the ids of the
\* tasks whose date was handed to getBillingPeriod
getBillingPeriodsForClient(ts, client, schedule, tz) ==
    LET clientTasks == FilterClient(ts, client)
    IN  IF Len(schedule) = 0 /\ clientTasks # <<>>
        THEN [kind |-> "error", message |-> "No invoice dates configured"]
        ELSE [kind |-> "ok",
              periods |-> SortDateStrings(BillingDatesOf(clientTasks, schedule, tz)),
              resolved |-> [i \in 1..Len(clientTasks) |-> clientTasks[i].id]]

\* getBillingPeriodsForClientPrompt(tasks, client)
getBillingPeriodsForClientPrompt(ts, client, schedule, tz) ==
    getBillingPeriodsForClient(ts, client, schedule, tz)

----------------------------------------------------------------------------
(* view.ts.  Colours, and with them the hour limit of a client, are not    *)
(* part of the outcome.                                                    *)

\* the elements of a set of strings as Array.from(...).sort() returns them:
\* ascending by code units (the elements of a Set or the keys of a Map are
\* distinct, so the order of insertion does not show)
RECURSIVE SortedNames(_)
SortedNames(S) ==
    IF S = {} THEN <<>>
    ELSE LET least == CHOOSE x \in S :
                        \A y \in S : SeqCompare(CodeUnits(x), CodeUnits(y)) <= 0
         IN  <<least>> \o SortedNames(S \ {least})

RECURSIVE SortedDateStrings(_)
SortedDateStrings(S) ==
    IF S = {} THEN <<>>
    ELSE LET least == CHOOSE x \in S : \A y \in S : SeqCompare(x, y) <= 0
         IN  <<least>> \o SortedDateStrings(S \ {least})

\* getClientsFromTasks(tasks)
getClientsFromTasks(ts) == SortedNames({ts[i].client : i \in 1..Len(ts)})

\* a.time.localeCompare(b.time) on HH:MM:SS strings
TimeCompare(a, b) == SeqCompare(CodeUnits(a), CodeUnits(b))

\* the comparator of sortedTasks: date, then time
CompareTasks(a, b) ==
    IF DateCompare(a.date, b.date) # 0 THEN DateCompare(a.date, b.date)
    ELSE TimeCompare(a.time, b.time)

RECURSIVE InsertTask(_, _)
InsertTask(x, s) ==
    IF s = <<>> THEN <<x>>
    ELSE IF CompareTasks(x, Head(s)) < 0 THEN <<x>> \o s
    ELSE <<Head(s)>> \o InsertTask(x, Tail(s))

\* [...periodTasks].sort(...): stable, on a copy
RECURSIVE SortTasks(_)
SortTasks(s) ==
    IF s = <<>> THEN <<>>
    ELSE InsertTask(s[Len(s)], SortTasks(SubSeq(s, 1, Len(s) - 1)))

\* calculateClientTotals(tasks)
RECURSIVE calculateClientTotals(_)
calculateClientTotals(ts) ==
    IF ts = <<>> THEN [totalHours |-> 0, totalAmount |-> 0, taskCount |-> 0]
    ELSE LET before == calculateClientTotals(SubSeq(ts, 1, Len(ts) - 1))
             task == ts[Len(ts)]
         IN  [totalHours |-> before.totalHours + task.hoursWorked,
              totalAmount |-> before.totalAmount + task.hoursWorked * task.rate,
              taskCount |-> before.taskCount + 1]

\* a row of the table of a billing period
TableRow(task) ==
    [id |-> task.id, date |-> task.date, time |-> task.time,
     activityType |-> task.activityType, ticketNumber |-> task.ticketNumber,
     hoursWorked |-> task.hoursWorked, rate |-> task.rate,
     total |-> task.hoursWorked * task.rate]

\* what is printed for one billing period of one client
PeriodSection(client, billingDate, periodTasks, schedule, tz) ==
    LET firstTask == periodTasks[1]
        sortedTasks == SortTasks(periodTasks)
        periodTotals == calculateClientTotals(periodTasks)
    IN  [client |-> client,
         billingDate |-> billingDate,
         periodLabel |-> getBillingPeriod(firstTask.date, schedule, tz).periodLabel,
         rows |-> [i \in 1..Len(sortedTasks) |-> TableRow(sortedTasks[i])],
         totalHours |-> periodTotals.totalHours,
         totalAmount |-> periodTotals.totalAmount,
         taskCount |-> periodTotals.taskCount]

\* the sections of the billing periods of one client, oldest first
RECURSIVE ClientSections(_, _, _, _, _)
ClientSections(client, clientBillingPeriods, sortedBillingDates, schedule, tz) ==
    IF sortedBillingDates = <<>> THEN <<>>
    ELSE <<PeriodSection(client, Head(sortedBillingDates),
                         clientBillingPeriods[Head(sortedBillingDates)], schedule, tz)>>
             \o ClientSections(client, clientBillingPeriods, Tail(sortedBillingDates),
                               schedule, tz)

\* the sections of all clients, clients in alphabetical order
RECURSIVE AllSections(_, _, _, _)
AllSections(grouped, sortedClients, schedule, tz) ==
    IF sortedClients = <<>> THEN <<>>
    ELSE ClientSections(Head(sortedClients), grouped[Head(sortedClients)],
                        SortedDateStrings(DOMAIN grouped[Head(sortedClients)]),
                        schedule, tz)
             \o AllSections(grouped, Tail(sortedClients), schedule, tz)

\* the tasks whose billing date is selectedBillingPeriod
FilterPeriod(ts, selectedBillingPeriod, schedule, tz) ==
    SelectSeq(ts, LAMBDA t :
        getBillingPeriod(t.date, schedule, tz).billingDate = selectedBillingPeriod)

\* displayTasksByClient(selectedClient?, selectedBillingPeriod?) on the loaded
\* tasks: what it prints.  selectedClient is "" and selectedBillingPeriod is
\* <<>> when not given.
displayTasksByClient(selectedClient, selectedBillingPeriod, stored, schedule, tz) ==
    LET byClient == IF selectedClient # "" /\ selectedClient # "all"
                    THEN FilterClient(stored, selectedClient) ELSE stored
        filteredTasks == IF selectedBillingPeriod # <<>> /\ Len(schedule) > 0
                         THEN FilterPeriod(byClient, selectedBillingPeriod, schedule, tz)
                         ELSE byClient
    IN  IF Len(stored) = 0
        THEN [kind |-> "notFound", message |-> "No tasks recorded yet"]
        ELSE IF Len(byClient) = 0
        THEN [kind |-> "notFound", message |-> "No tasks found for client"]
        ELSE IF Len(schedule) = 0
        THEN [kind |-> "error", message |-> "No invoice dates configured"]
        ELSE IF Len(filteredTasks) = 0
        THEN [kind |-> "notFound",
              message |-> "No tasks found for the selected billing period"]
        ELSE LET grouped == groupTasksByClientAndBillingPeriod(filteredTasks, schedule, tz)
             IN  [kind |-> "view",
                  sections |-> AllSections(grouped, SortedNames(DOMAIN grouped),
                                           schedule, tz),
                  grandTotal |-> Len(stored)]

----------------------------------------------------------------------------
(* storage.ts and the operations on the stored tasks *)

\* loadTasks(): the parsed file, or [] when the file does not exist
loadTasks(state, stored) == IF state = "missing" THEN <<>> ELSE stored

\* a variant that saves the new task in front of the loaded ones
addTaskInFront(state, stored, task) == <<task>> \o loadTasks(state, stored)

\* addTask(task): the list that saveTasks writes, loadTasks() with task pushed
addTask(state, stored, task) == Append(loadTasks(state, stored), task)

\* a task is added to the store; its id is the next unused one
AddTask(entry, limit) ==
    /\ op = "start"
    /\ Len(tasks) < limit
    /\ tasks' = addTask(storeState, tasks, [entry EXCEPT !.id = Len(tasks) + 1])
    /\ storeState' = "present"
    /\ UNCHANGED <<invoiceDates, paymentTerms, tzOffset, op, arg, ret>>
    /\ UNCHANGED configVars

\* the grouping of all loaded tasks, as displayTasksByClient('all') does
GroupTasks ==
    /\ op = "start"
    /\ op' = "groupTasks"
    /\ arg' = loadTasks(storeState, tasks)
    /\ ret' = IF Len(invoiceDates) = 0 /\ Len(tasks) > 0
              THEN [kind |-> "error", message |-> "No invoice dates configured"]
              ELSE [kind |-> "ok",
                    grouped |-> groupTasksByClientAndBillingPeriod(loadTasks(storeState, tasks),
                                                                  invoiceDates, tzOffset)]
    /\ UNCHANGED <<invoiceDates, paymentTerms, tzOffset, tasks>>
    /\ UNCHANGED <<storeState, configVars>>

DisplayInvoice(client, billingDate) ==
    /\ op = "start"
    /\ op' = "displayInvoice"
    /\ arg' = [client |-> client, billingDate |-> billingDate]
    /\ ret' = displayInvoice(client, billingDate, loadTasks(storeState, tasks),
                           invoiceDates, paymentTerms, tzOffset)
    /\ UNCHANGED <<invoiceDates, paymentTerms, tzOffset, tasks>>
    /\ UNCHANGED <<storeState, configVars>>

\* the list of billing periods offered for a client of the loaded tasks
ListBillingPeriods(client) ==
    /\ op = "start"
    /\ op' = "getBillingPeriodsForClient"
    /\ arg' = [client |-> client, tasks |-> loadTasks(storeState, tasks)]
    /\ ret' = getBillingPeriodsForClientPrompt(loadTasks(storeState, tasks), client,
                                             invoiceDates, tzOffset)
    /\ UNCHANGED <<invoiceDates, paymentTerms, tzOffset, tasks>>
    /\ UNCHANGED <<storeState, configVars>>

----------------------------------------------------------------------------
(* Tasks of several clients and billing periods *)

GroupingSchedules == {<<1, 15>>, <<20, 5>>}
GroupingDates == {FormatYMD(2024, 0, 25), FormatYMD(2024, 1, 3), FormatYMD(2024, 1, 10)}
ClientNames == {"Acme", "acme"}

GroupingEntries ==
    [id : {0}, date : GroupingDates, time : {"09:00:00"}, activityType : {"dev"},
     ticketNumber : {<<>>}, hoursWorked : {4}, client : ClientNames, rate : {100}]

BillingDateChoices ==
    {getBillingPeriod(d, sch, 0).billingDate : d \in GroupingDates, sch \in GroupingSchedules}

InitGrouping ==
    /\ invoiceDates \in GroupingSchedules
    /\ paymentTerms = 15
    /\ tzOffset = 0
    /\ tasks = <<>>
    /\ op = "start"
    /\ arg = <<>>
    /\ ret = <<>>
    /\ LoadedDefaults

NextGrouping ==
    \/ \E e \in GroupingEntries : AddTask(e, MaxTasks)
    \/ GroupTasks
    \/ \E c \in ClientNames \cup {"Zed"}, b \in BillingDateChoices : DisplayInvoice(c, b)
    \/ \E c \in ClientNames \cup {"Zed"} : ListBillingPeriods(c)
    \/ Return

SpecGrouping == InitGrouping /\ [][NextGrouping]_vars

----------------------------------------------------------------------------
(* Tasks of one client in one billing period *)

PeriodDates == {FormatYMD(2024, 0, 5), FormatYMD(2024, 0, 10)}

\* activity types with and without a '|', tickets absent, empty and "|";
\* a capitalised activity type without ticket
PeriodEntries ==
    [id : {0}, date : PeriodDates, time : {"09:00:00"},
     activityType : {"dev", "dev|"},
     ticketNumber : {<<>>, <<"">>, <<"|">>},
     hoursWorked : {2, 6}, client : {"Acme"}, rate : {100, 150}]
    \cup
    [id : {0}, date : PeriodDates, time : {"09:00:00"},
     activityType : {"Test"},
     ticketNumber : {<<>>},
     hoursWorked : {2, 6}, client : {"Acme"}, rate : {100, 150}]

InitInvoice ==
    /\ invoiceDates = <<1, 15>>
    /\ paymentTerms = 15
    /\ tzOffset = 0
    /\ tasks = <<>>
    /\ op = "start"
    /\ arg = <<>>
    /\ ret = <<>>
    /\ LoadedDefaults

NextInvoice ==
    \/ \E e \in PeriodEntries : AddTask(e, MaxPeriodTasks)
    \/ DisplayInvoice("Acme", FormatYMD(2024, 0, 15))
    \/ Return

SpecInvoice == InitInvoice /\ [][NextInvoice]_vars

----------------------------------------------------------------------------
(* A session of the main menu: tasks are added under the rates configured  *)
(* at that moment, the configuration is edited between two runs, and the   *)
(* stored tasks are listed, viewed and invoiced.                           *)

SessionRateTables ==
    {<<>>, <<[client |-> "Acme", rate |-> 150]>>, <<[client |-> "Acme", rate |-> 200]>>}
SessionDates == {FormatYMD(2024, 0, 5), FormatYMD(2024, 0, 20)}
SessionClients == {"Acme", "Beta"}

\* what collectTaskInfo() returns; ticketNumber is "" when none was typed
TaskInputs ==
    [client : {"Acme"}, activityType : {"dev"}, ticketNumber : {"", "|"}, hoursWorked : {4}]
    \cup [client : {"Beta"}, activityType : {"dev"}, ticketNumber : {""}, hoursWorked : {4}]

InitSession ==
    /\ clients \in SessionRateTables
    /\ defaultRate = DEFAULT_CONFIG.defaultRate.num
    /\ invoiceDates = DEFAULT_CONFIG.invoiceDates.items
    /\ paymentTerms = DEFAULT_CONFIG.paymentTerms.num
    /\ ConfigIsLoaded
    /\ tzOffset = 0
    /\ tasks = <<>>
    /\ storeState \in {"missing", "present"}
    /\ op = "start"
    /\ arg = <<>>
    /\ ret = <<>>

\* addNewTask(): the rate is looked up, the entry is built and added to the
\* store; date and time are what getCurrentDateTime() returns, the id stands
\* for the fresh UUID
AddNewTask(taskInput, date, time) ==
    /\ op = "start"
    /\ Len(tasks) < MaxSessionTasks
    /\ LET rate == getRateForClient(taskInput.client, <<>>, clients, defaultRate)
           taskEntry == [id |-> Len(tasks) + 1,
                         date |-> date,
                         time |-> time,
                         activityType |-> taskInput.activityType,
                         ticketNumber |-> IF taskInput.ticketNumber # ""
                                          THEN <<taskInput.ticketNumber>> ELSE <<>>,
                         hoursWorked |-> taskInput.hoursWorked,
                         client |-> taskInput.client,
                         rate |-> rate]
       IN  /\ tasks' = addTask(storeState, tasks, taskEntry)
           /\ storeState' = "present"
           /\ op' = "addNewTask"
           /\ arg' = taskInput
           /\ ret' = [kind |-> "ok", taskEntry |-> taskEntry]
    /\ UNCHANGED <<invoiceDates, paymentTerms, tzOffset, configVars>>

\* config.json is edited and the application is started again: the next
\* loadConfig() returns other client rates
EditConfig(rates) ==
    /\ op = "start"
    /\ rates # clients
    /\ clients' = rates
    /\ cachedConfig' = <<ConfigOf(rates, defaultRate, invoiceDates, paymentTerms)>>
    /\ configFile' = File("object", cachedConfig'[1])
    /\ UNCHANGED <<invoiceDates, paymentTerms, tzOffset, tasks, op, arg, ret>>
    /\ UNCHANGED <<storeState, defaultRate, exampleFile>>

\* the list of clients offered by the view and invoice menus; arg is the
\* list handed to getClientsFromTasks as it is when the function returns
ListClients ==
    /\ op = "start"
    /\ op' = "getClientsFromTasks"
    /\ arg' = [tasks |-> loadTasks(storeState, tasks)]
    /\ ret' = getClientsFromTasks(loadTasks(storeState, tasks))
    /\ UNCHANGED <<invoiceDates, paymentTerms, tzOffset, tasks>>
    /\ UNCHANGED <<storeState, configVars>>

\* variant: the tasks shown are written back to the store
DisplayTasksSavingSelection(selectedClient, selectedBillingPeriod) ==
    /\ op = "start"
    /\ op' = "displayTasksByClient"
    /\ arg' = [client |-> selectedClient, billingDate |-> selectedBillingPeriod]
    /\ ret' = displayTasksByClient(selectedClient, selectedBillingPeriod,
                                   loadTasks(storeState, tasks), invoiceDates, tzOffset)
    /\ tasks' = IF selectedClient = "all" THEN tasks ELSE FilterClient(tasks, selectedClient)
    /\ UNCHANGED <<invoiceDates, paymentTerms, tzOffset>>
    /\ UNCHANGED <<storeState, configVars>>

DisplayTasksByClient(selectedClient, selectedBillingPeriod) ==
    /\ op = "start"
    /\ op' = "displayTasksByClient"
    /\ arg' = [client |-> selectedClient, billingDate |-> selectedBillingPeriod]
    /\ ret' = displayTasksByClient(selectedClient, selectedBillingPeriod,
                                   loadTasks(storeState, tasks), invoiceDates, tzOffset)
    /\ UNCHANGED <<invoiceDates, paymentTerms, tzOffset, tasks>>
    /\ UNCHANGED <<storeState, configVars>>

SessionBillingDates ==
    {getBillingPeriod(d, DEFAULT_CONFIG.invoiceDates.items, 0).billingDate : d \in SessionDates}

NextSession ==
    \/ \E i \in TaskInputs, d \in SessionDates : AddNewTask(i, d, "09:00:00")
    \/ \E r \in SessionRateTables : EditConfig(r)
    \/ ListClients
    \/ \E c \in SessionClients : ListBillingPeriods(c)
    \/ \E c \in SessionClients \cup {"all"}, b \in SessionBillingDates \cup {<<>>} :
          DisplayTasksByClient(c, b)
    \/ \E c \in SessionClients, b \in SessionBillingDates : DisplayInvoice(c, b)
    \/ Return

SpecSession == InitSession /\ [][NextSession]_vars

----------------------------------------------------------------------------
(* storage.ts on a task file that may be unreadable or hold text that is   *)
(* not JSON: storeState is then "unreadable" or "unparsable".              *)

StoreStates == {"missing", "present", "unreadable", "unparsable"}

\* variant: text that is not JSON is taken for an empty list
loadTasksOrEmpty(state, stored) ==
    IF state = "unreadable"
    THEN [kind |-> "error", message |-> "EACCES: permission denied", tasks |-> <<>>]
    ELSE [kind |-> "ok", message |-> "", tasks |-> loadTasks(state, stored)]

\* loadTasks(): the list it returns, or the error it rethrows
loadTasksOutcome(state, stored) ==
    IF state = "unreadable"
    THEN [kind |-> "error", message |-> "EACCES: permission denied", tasks |-> <<>>]
    ELSE IF state = "unparsable"
    THEN [kind |-> "error", message |-> "SyntaxError: Unexpected token", tasks |-> <<>>]
    ELSE [kind |-> "ok", message |-> "", tasks |-> loadTasks(state, stored)]

----------------------------------------------------------------------------
(* main(): the menu loop.  op is the prompt at which the loop waits or the *)
(* flow that has just printed ret; arg holds the local variables of the    *)
(* running flow.  While the user sits at a prompt another instance of the  *)
(* application may save its own list to the task file.  "exited" is the    *)
(* state after break, "crashed" the state after process.exit(1).           *)

MainEntries ==
    {[id |-> 0, date |-> d, time |-> "09:00:00", activityType |-> "dev",
      ticketNumber |-> <<>>, hoursWorked |-> 4, client |-> c, rate |-> 100] :
        d \in SessionDates, c \in SessionClients}

\* the lists of at most MaxMainTasks tasks, ids in order of storage
MainStores ==
    {[i \in 1..Len(q) |-> [q[i] EXCEPT !.id = i]] : q \in SeqsUpTo(MainEntries, MaxMainTasks)}

\* the default schedule, and the empty one that an unvalidated copy of
\* config.example.json leaves in the cache
MainSchedules == {<<>>, <<1, 15>>}

InitMain ==
    /\ clients = DEFAULT_CONFIG.clients.items
    /\ defaultRate = DEFAULT_CONFIG.defaultRate.num
    /\ invoiceDates \in MainSchedules
    /\ paymentTerms = DEFAULT_CONFIG.paymentTerms.num
    /\ cachedConfig = <<ConfigOf(clients, defaultRate, invoiceDates, paymentTerms)>>
    /\ configFile = File("object", cachedConfig[1])
    /\ exampleFile = IF invoiceDates = <<>> THEN configFile ELSE MissingFile
    /\ tzOffset = 0
    /\ tasks = <<>>
    /\ storeState \in {"missing", "unparsable"}
    /\ op = "start"
    /\ arg = <<>>
    /\ ret = <<>>

\* variant: a flow that found nothing ends the application like an error
ShownOrGivenUp(flow, result) ==
    /\ ret' = result
    /\ op' = IF ret'.kind \in {"error", "notFound"} THEN "crashed" ELSE flow

\* the flow has printed result and the loop goes on, or result is an error
\* that reaches the catch block of main
Shown(flow, result) ==
    /\ ret' = result
    /\ op' = IF ret'.kind = "error" THEN "crashed" ELSE flow

\* action 'add': addNewTask()
MainAdd(taskInput, date, time) ==
    /\ op = "start"
    /\ Len(tasks) < MaxMainTasks
    /\ LET loaded == loadTasksOutcome(storeState, tasks)
           rate == getRateForClient(taskInput.client, <<>>, clients, defaultRate)
           taskEntry == [id |-> Len(tasks) + 1,
                         date |-> date,
                         time |-> time,
                         activityType |-> taskInput.activityType,
                         ticketNumber |-> IF taskInput.ticketNumber # ""
                                          THEN <<taskInput.ticketNumber>> ELSE <<>>,
                         hoursWorked |-> taskInput.hoursWorked,
                         client |-> taskInput.client,
                         rate |-> rate]
       IN  IF loaded.kind = "error"
           THEN /\ Shown("addNewTask", [kind |-> "error", message |-> loaded.message])
                /\ arg' = taskInput
                /\ UNCHANGED <<tasks, storeState>>
           ELSE /\ Shown("addNewTask", [kind |-> "ok", taskEntry |-> taskEntry])
                /\ arg' = taskInput
                /\ tasks' = addTask(storeState, tasks, taskEntry)
                /\ storeState' = "present"
    /\ UNCHANGED <<invoiceDates, paymentTerms, tzOffset, configVars>>

\* the head of the 'view' and 'invoice' branches: loadTasks(), the empty
\* check and getClientsFromTasks(tasks), up to the prompt for the client
SelectFlow(flow, prompt) ==
    /\ \E loaded \in {loadTasksOutcome(storeState, tasks)} :
          IF loaded.kind = "error"
          THEN /\ Shown(flow, [kind |-> "error", message |-> loaded.message])
               /\ arg' = <<>>
          ELSE IF Len(loaded.tasks) = 0
          THEN /\ Shown(flow, [kind |-> "notFound", message |-> "No tasks recorded yet"])
               /\ arg' = <<>>
          ELSE /\ op' = prompt
               /\ arg' = [tasks |-> loaded.tasks,
                          availableClients |-> getClientsFromTasks(loaded.tasks)]
               /\ ret' = <<>>
    /\ UNCHANGED <<invoiceDates, paymentTerms, tzOffset, tasks>>
    /\ UNCHANGED <<storeState, configVars>>

\* action 'view', up to promptSelectClient
MainView ==
    /\ op = "start"
    /\ SelectFlow("view", "promptSelectClient")

\* action 'invoice', up to promptSelectClientForInvoice
MainInvoice ==
    /\ op = "start"
    /\ SelectFlow("invoice", "promptSelectClientForInvoice")

\* await displayTasksByClient(selectedClient, selectedBillingPeriod)
ShowTasks(selectedClient, selectedBillingPeriod) ==
    \E loaded \in {loadTasksOutcome(storeState, tasks)} :
        /\ IF loaded.kind = "error"
           THEN Shown("displayTasksByClient", [kind |-> "error", message |-> loaded.message])
           ELSE Shown("displayTasksByClient",
                      displayTasksByClient(selectedClient, selectedBillingPeriod,
                                           loaded.tasks, invoiceDates, tzOffset))
        /\ arg' = [client |-> selectedClient, billingDate |-> selectedBillingPeriod]

\* the client chosen at promptSelectClient, and what follows up to the next
\* prompt or to the end of the branch
ViewClientSelected(selectedClient) ==
    /\ op = "promptSelectClient"
    /\ selectedClient \in {"all"} \cup Range(arg.availableClients)
    /\ \E billingPeriods \in
              {IF selectedClient # "all"
               THEN getBillingPeriodsForClient(arg.tasks, selectedClient, invoiceDates, tzOffset)
               ELSE [kind |-> "ok", periods |-> <<>>, resolved |-> <<>>]} :
          IF billingPeriods.kind = "error"
          THEN /\ Shown("view", [kind |-> "error", message |-> billingPeriods.message])
               /\ arg' = <<>>
          ELSE IF Len(billingPeriods.periods) > 1
          THEN /\ op' = "promptSelectBillingPeriod"
               /\ arg' = [client |-> selectedClient,
                          billingPeriods |-> billingPeriods.periods]
               /\ ret' = <<>>
          ELSE \E selectedBillingPeriod \in
                   {IF Len(billingPeriods.periods) = 1
                    THEN billingPeriods.periods[1] ELSE <<>>} :
                  ShowTasks(selectedClient, selectedBillingPeriod)
    /\ UNCHANGED <<invoiceDates, paymentTerms, tzOffset, tasks>>
    /\ UNCHANGED <<storeState, configVars>>

\* the option 'All Billing Periods' of the 'view' branch; dates are strings
\* of ten characters, the option is told apart from them as the empty one
allPeriodsOption == <<>>

\* the option chosen at promptSelectBillingPeriod of the 'view' branch
ViewPeriodSelected(selectedPeriod) ==
    /\ op = "promptSelectBillingPeriod"
    /\ selectedPeriod \in {allPeriodsOption} \cup Range(arg.billingPeriods)
    /\ ShowTasks(arg.client,
                 IF selectedPeriod # allPeriodsOption THEN selectedPeriod ELSE <<>>)
    /\ UNCHANGED <<invoiceDates, paymentTerms, tzOffset, tasks>>
    /\ UNCHANGED <<storeState, configVars>>

\* the client chosen at promptSelectClientForInvoice, up to the next prompt
InvoiceClientSelected(clientSelection) ==
    /\ op = "promptSelectClientForInvoice"
    /\ clientSelection \in Range(arg.availableClients)
    /\ \E billingPeriods \in
              {getBillingPeriodsForClientPrompt(arg.tasks, clientSelection,
                                                invoiceDates, tzOffset)} :
          IF billingPeriods.kind = "error"
          THEN /\ Shown("invoice", [kind |-> "error", message |-> billingPeriods.message])
               /\ arg' = <<>>
          ELSE IF Len(billingPeriods.periods) = 0
          THEN /\ Shown("invoice", [kind |-> "notFound",
                                    message |-> "No billing periods found for client"])
               /\ arg' = <<>>
          ELSE /\ op' = "promptSelectBillingPeriodForInvoice"
               /\ arg' = [client |-> clientSelection,
                          billingPeriods |-> billingPeriods.periods]
               /\ ret' = <<>>
    /\ UNCHANGED <<invoiceDates, paymentTerms, tzOffset, tasks>>
    /\ UNCHANGED <<storeState, configVars>>

\* the period chosen at promptSelectBillingPeriod of the 'invoice' branch,
\* and displayInvoice(clientSelection, selectedBillingPeriod)
InvoicePeriodSelected(selectedBillingPeriod) ==
    /\ op = "promptSelectBillingPeriodForInvoice"
    /\ selectedBillingPeriod \in Range(arg.billingPeriods)
    /\ \E loaded \in {loadTasksOutcome(storeState, tasks)} :
          IF loaded.kind = "error"
          THEN Shown("displayInvoice", [kind |-> "error", message |-> loaded.message])
          ELSE Shown("displayInvoice",
                     displayInvoice(arg.client, selectedBillingPeriod, loaded.tasks,
                                    invoiceDates, paymentTerms, tzOffset))
    /\ arg' = [client |-> arg.client, billingDate |-> selectedBillingPeriod]
    /\ UNCHANGED <<invoiceDates, paymentTerms, tzOffset, tasks>>
    /\ UNCHANGED <<storeState, configVars>>

\* action 'exit': break
MainExit ==
    /\ op = "start"
    /\ op' = "exited"
    /\ arg' = <<>>
    /\ ret' = <<>>
    /\ UNCHANGED <<invoiceDates, paymentTerms, tzOffset, tasks>>
    /\ UNCHANGED <<storeState, configVars>>

MainFlows == {"addNewTask", "view", "invoice", "displayTasksByClient", "displayInvoice"}
MainPrompts ==
    {"promptSelectClient", "promptSelectBillingPeriod",
     "promptSelectClientForInvoice", "promptSelectBillingPeriodForInvoice"}

\* continue, or the end of the loop body: back to promptMainMenu
Continue ==
    /\ op \in MainFlows
    /\ op' = "start"
    /\ arg' = <<>>
    /\ ret' = <<>>
    /\ UNCHANGED <<invoiceDates, paymentTerms, tzOffset, tasks>>
    /\ UNCHANGED <<storeState, configVars>>

\* another instance of the application saves its list of tasks while this
\* one waits at a prompt
OtherInstanceSaves(list) ==
    /\ op \in MainPrompts
    /\ storeState \in {"missing", "present"}
    /\ list # loadTasks(storeState, tasks)
    /\ tasks' = list
    /\ storeState' = "present"
    /\ UNCHANGED <<invoiceDates, paymentTerms, tzOffset, op, arg, ret>>
    /\ UNCHANGED configVars

NextMain ==
    \/ \E i \in TaskInputs, d \in SessionDates : MainAdd(i, d, "09:00:00")
    \/ MainView
    \/ \E c \in SessionClients \cup {"all"} : ViewClientSelected(c)
    \/ \E b \in SessionBillingDates \cup {allPeriodsOption} : ViewPeriodSelected(b)
    \/ MainInvoice
    \/ \E c \in SessionClients : InvoiceClientSelected(c)
    \/ \E b \in SessionBillingDates : InvoicePeriodSelected(b)
    \/ MainExit
    \/ Continue
    \/ \E list \in MainStores : OtherInstanceSaves(list)

SpecMain == InitMain /\ [][NextMain]_vars

\* the loop body runs on by itself once a flow has printed its outcome
SpecMainFair == SpecMain /\ WF_vars(Continue)

----------------------------------------------------------------------------
(* addTask(task) await by await.  A call awaits loadTasks() and then       *)
(* saveTasks(tasks); between the two, other calls run: a second call of    *)
(* this process that was not awaited, or a call of another instance of the *)
(* application.  arg[c] holds the locals of call c, ret the list that was  *)
(* stored before any call.                                                 *)

Calls == {1, 2}

\* the call has not been made yet
NotCalled == [pc |-> "idle", task |-> <<>>, tasks |-> <<>>, error |-> ""]

InitStore ==
    /\ clients = DEFAULT_CONFIG.clients.items
    /\ defaultRate = DEFAULT_CONFIG.defaultRate.num
    /\ invoiceDates = <<1, 15>>
    /\ paymentTerms = DEFAULT_CONFIG.paymentTerms.num
    /\ cachedConfig = <<ConfigOf(clients, defaultRate, invoiceDates, paymentTerms)>>
    /\ configFile = File("object", cachedConfig[1])
    /\ exampleFile = MissingFile
    /\ tzOffset = 0
    /\ storeState \in StoreStates
    /\ tasks \in MainStores
    /\ storeState \in {"missing", "unparsable"} => tasks = <<>>
    /\ op = "addTask"
    /\ arg = [c \in Calls |-> NotCalled]
    /\ ret = tasks

\* addTask(task) is called and runs up to the read of the task file; the
\* id of the task is a fresh one
AddTaskCalled(c, entry) ==
    /\ arg[c].pc = "idle"
    /\ arg' = [arg EXCEPT ![c] = [pc |-> "loadTasks",
                                  task |-> [entry EXCEPT !.id = 10 + c],
                                  tasks |-> <<>>,
                                  error |-> ""]]
    /\ UNCHANGED <<invoiceDates, paymentTerms, tzOffset, tasks, op, ret>>
    /\ UNCHANGED <<storeState, configVars>>

\* const tasks = await loadTasks(); tasks.push(task): the file is read, and
\* the call goes on to saveTasks or ends with the error of loadTasks
LoadTasksReturns(c) ==
    /\ arg[c].pc = "loadTasks"
    /\ \E loaded \in {loadTasksOutcome(storeState, tasks)} :
          arg' = [arg EXCEPT ![c] =
                     IF loaded.kind = "error"
                     THEN [@ EXCEPT !.pc = "failed", !.error = loaded.message]
                     ELSE [@ EXCEPT !.pc = "saveTasks",
                                    !.tasks = Append(loaded.tasks, arg[c].task)]]
    /\ UNCHANGED <<invoiceDates, paymentTerms, tzOffset, tasks, op, ret>>
    /\ UNCHANGED <<storeState, configVars>>

\* await saveTasks(tasks): the file is written with the list of the call
SaveTasksReturns(c) ==
    /\ arg[c].pc = "saveTasks"
    /\ tasks' = arg[c].tasks
    /\ storeState' = "present"
    /\ arg' = [arg EXCEPT ![c].pc = "done"]
    /\ UNCHANGED <<invoiceDates, paymentTerms, tzOffset, op, ret>>
    /\ UNCHANGED configVars

NextStore ==
    \/ \E c \in Calls, entry \in MainEntries : AddTaskCalled(c, entry)
    \/ \E c \in Calls : LoadTasksReturns(c)
    \/ \E c \in Calls : SaveTasksReturns(c)

SpecStore == InitStore /\ [][NextStore]_vars

----------------------------------------------------------------------------
(* Vocabulary of the properties: calendar facts stated independently of    *)
(* the Date arithmetic above.                                              *)

YearOf(dateStr) ==
    1000 * dateStr[1] + 100 * dateStr[2] + 10 * dateStr[3] + dateStr[4]
MonthOf(dateStr) == 10 * dateStr[5] + dateStr[6]
DayOf(dateStr) == 10 * dateStr[7] + dateStr[8]

SetMax(S) == CHOOSE x \in S : \A y \in S : y <= x
SetMin(S) == CHOOSE x \in S : \A y \in S : x <= y

LastDay == SetMax(Range(invoiceDates))
FirstDay == SetMin(Range(invoiceDates))

MonthLength(y, m) ==
    CASE m \in {1, 3, 5, 7, 8, 10, 12} -> 31
      [] m \in {4, 6, 9, 11} -> 30
      [] OTHER -> IF y % 400 = 0 \/ (y % 4 = 0 /\ y % 100 # 0) THEN 29 ELSE 28

EnglishMonth(m) ==
    CASE m = 1 -> "January" [] m = 2 -> "February" [] m = 3 -> "March"
      [] m = 4 -> "April" [] m = 5 -> "May" [] m = 6 -> "June"
      [] m = 7 -> "July" [] m = 8 -> "August" [] m = 9 -> "September"
      [] m = 10 -> "October" [] m = 11 -> "November" [] OTHER -> "December"

\* the calendar day after <<y, m, d>>
DayAfter(ymd) ==
    IF ymd[3] < MonthLength(ymd[1], ymd[2]) THEN <<ymd[1], ymd[2], ymd[3] + 1>>
    ELSE IF ymd[2] < 12 THEN <<ymd[1], ymd[2] + 1, 1>>
    ELSE <<ymd[1] + 1, 1, 1>>

RECURSIVE DaysLater(_, _)
DaysLater(ymd, n) == IF n = 0 THEN ymd ELSE DaysLater(DayAfter(ymd), n - 1)

YMD(dateStr) == <<YearOf(dateStr), MonthOf(dateStr), DayOf(dateStr)>>

----------------------------------------------------------------------------
(* Properties of the billing functions (checked under SpecBilling) *)

\* C1: for a date whose day is below the largest invoice day the billing date
\* is the smallest invoice day above it, in the same month and year; for a
\* day at or above the largest invoice day it is the smallest invoice day of
\* the next month, January of the next year for a December date.
C1_BillingDateRule ==
    (op = "getBillingPeriod") =>
        /\ ret.kind = "ok"
        /\ IF DayOf(arg) < LastDay
           THEN YMD(ret.billingDate) =
                    <<YearOf(arg), MonthOf(arg),
                      SetMin({x \in Range(invoiceDates) : x > DayOf(arg)})>>
           ELSE YMD(ret.billingDate) =
                    IF MonthOf(arg) = 12
                    THEN <<YearOf(arg) + 1, 1, FirstDay>>
                    ELSE <<YearOf(arg), MonthOf(arg) + 1, FirstDay>>

\* a December task exactly on the largest invoice day has been resolved
C1_Witness ==
    /\ op = "getBillingPeriod"
    /\ MonthOf(arg) = 12
    /\ DayOf(arg) = LastDay
    /\ Len(invoiceDates) > 1
    /\ YMD(ret.billingDate) = <<YearOf(arg) + 1, 1, FirstDay>>

\* the range the label must show for the task date `arg` billed on `bd`
ExpectedRange(bd) ==
    IF DayOf(bd) = FirstDay /\ MonthOf(bd) # MonthOf(arg)
    THEN <<LastDay, MonthLength(YearOf(arg), MonthOf(arg))>>
    ELSE LET before == {x \in Range(invoiceDates) : x < DayOf(bd)}
             prev == IF before = {} THEN LastDay ELSE SetMax(before)
         IN  <<IF prev = FirstDay /\ DayOf(bd) # FirstDay THEN 1 ELSE prev,
               DayOf(bd) - 1>>

LabelShowsRange(label, range) ==
    \E bm \in 1..12 :
        label = EnglishMonth(MonthOf(arg)) \o " " \o ToString(range[1]) \o "-"
                    \o ToString(range[2]) \o " (Billed: " \o EnglishMonth(bm) \o " "
                    \o ToString(DayOf(ret.billingDate)) \o ")"

\* C3: the range of the label is lastDay..month end when the billing day is
\* firstDay of another month; otherwise it ends at billingDay - 1 and starts
\* at the preceding invoice day (wrapping to lastDay), or at 1 when that
\* preceding day is firstDay and the billing day is not.  For [1,10,20]:
\* day 5 -> 1-9, day 15 -> 10-19, day 25 -> 20-month end; for [1] always
\* 1-month end.
C3_PeriodRangeRule ==
    (op = "getBillingPeriod") =>
        /\ LabelShowsRange(ret.periodLabel, ExpectedRange(ret.billingDate))
        /\ (Range(invoiceDates) = {1, 10, 20} /\ DayOf(arg) = 5)
               => LabelShowsRange(ret.periodLabel, <<1, 9>>)
        /\ (Range(invoiceDates) = {1, 10, 20} /\ DayOf(arg) = 15)
               => LabelShowsRange(ret.periodLabel, <<10, 19>>)
        /\ (Range(invoiceDates) = {1, 10, 20} /\ DayOf(arg) = 25)
               => LabelShowsRange(ret.periodLabel,
                                  <<20, MonthLength(YearOf(arg), MonthOf(arg))>>)
        /\ (invoiceDates = <<1>>)
               => LabelShowsRange(ret.periodLabel,
                                  <<1, MonthLength(YearOf(arg), MonthOf(arg))>>)

\* a mid-month task under a schedule whose smallest day is not 1 got a range
\* starting at day 1
C3_Witness ==
    /\ op = "getBillingPeriod"
    /\ FirstDay > 1
    /\ DayOf(arg) > FirstDay
    /\ DayOf(arg) < LastDay
    /\ DayOf(ret.billingDate) # FirstDay
    /\ LabelShowsRange(ret.periodLabel, <<1, DayOf(ret.billingDate) - 1>>)

\* C10: calculateDueDate returns the calendar date exactly paymentTerms days
\* after the billing date.
C10_DueDateIsTermsLater ==
    (op = "calculateDueDate") => YMD(ret) = DaysLater(YMD(arg), paymentTerms)

\* the schedule with its first two days exchanged, and with its first day
\* moved to the end: every reordering of a schedule is reached from it by
\* repeating these two
SwapFirstTwo(s) ==
    IF Len(s) < 2 THEN s ELSE <<s[2], s[1]>> \o SubSeq(s, 3, Len(s))
RotateLeft(s) == IF Len(s) < 2 THEN s ELSE Tail(s) \o <<Head(s)>>

\* C12: the result of getBillingPeriod does not depend on the order in which
\* the schedule lists its days (the set of schedules is closed under the two
\* reorderings that generate all permutations), and a second call with the
\* same date and schedule returns the same billingDate and periodLabel.
C12_ScheduleOrderIrrelevant ==
    (op = "getBillingPeriod") =>
        /\ getBillingPeriod(arg, SwapFirstTwo(invoiceDates), tzOffset) = ret
        /\ getBillingPeriod(arg, RotateLeft(invoiceDates), tzOffset) = ret
        /\ getBillingPeriod(arg, invoiceDates, tzOffset) = ret

\* a date between the days of a schedule listed in descending order
C12_Witness ==
    /\ op = "getBillingPeriod"
    /\ invoiceDates = <<20, 5>>
    /\ arg = FormatYMD(2024, 0, 10)
    /\ YMD(ret.billingDate) = <<2024, 1, 20>>

\* the label shows a range of the task's month that ends at endDay
LabelEndsAt(label, endDay) ==
    \E startDay \in 1..31, bm \in 1..12 :
        label = EnglishMonth(MonthOf(arg)) \o " " \o ToString(startDay) \o "-"
                    \o ToString(endDay) \o " (Billed: " \o EnglishMonth(bm) \o " "
                    \o ToString(DayOf(ret.billingDate)) \o ")"

\* C13: when the billing month differs from the task's month, the range of
\* the label ends at the number of days of the task's month in the task's
\* year: 29 for February 2024, 28 for February 2023.
C13_RolledPeriodEndsAtMonthLength ==
    (op = "getBillingPeriod" /\ MonthOf(ret.billingDate) # MonthOf(arg)) =>
        /\ LabelEndsAt(ret.periodLabel, MonthLength(YearOf(arg), MonthOf(arg)))
        /\ (YearOf(arg) = 2024 /\ MonthOf(arg) = 2) => LabelEndsAt(ret.periodLabel, 29)
        /\ (YearOf(arg) = 2023 /\ MonthOf(arg) = 2) => LabelEndsAt(ret.periodLabel, 28)

\* a task of February 2023 has been billed in March
C13_Witness ==
    /\ op = "getBillingPeriod"
    /\ YearOf(arg) = 2023
    /\ MonthOf(arg) = 2
    /\ MonthOf(ret.billingDate) = 3
    /\ LabelEndsAt(ret.periodLabel, 28)

\* C14: billingDate is a string of eight digits with the resolved year, a
\* month in 1..12 and an invoice day; the range of the label names the
\* task's month; the part after 'Billed:' names the month and the day of
\* billingDate.
C14_ResultSelfConsistent ==
    (op = "getBillingPeriod") =>
        /\ Len(ret.billingDate) = 8
        /\ \A i \in 1..8 : ret.billingDate[i] \in 0..9
        /\ MonthOf(ret.billingDate) \in 1..12
        /\ DayOf(ret.billingDate) \in Range(invoiceDates)
        /\ \E startDay \in 0..31, endDay \in 0..31 :
              ret.periodLabel =
                  EnglishMonth(MonthOf(arg)) \o " " \o ToString(startDay) \o "-"
                      \o ToString(endDay) \o " (Billed: "
                      \o EnglishMonth(MonthOf(ret.billingDate)) \o " "
                      \o ToString(DayOf(ret.billingDate)) \o ")"

----------------------------------------------------------------------------
(* Vocabulary of the properties about stored tasks *)

\* positions of the stored tasks of a client that resolve to a billing date
PeriodIdx(client, billingDate) ==
    {i \in 1..Len(tasks) :
        /\ tasks[i].client = client
        /\ getBillingPeriod(tasks[i].date, invoiceDates, tzOffset).billingDate = billingDate}

RECURSIVE SumHoursAt(_)
SumHoursAt(I) ==
    IF I = {} THEN 0
    ELSE LET i == CHOOSE x \in I : TRUE
         IN  tasks[i].hoursWorked + SumHoursAt(I \ {i})

RECURSIVE SumAmountAt(_)
SumAmountAt(I) ==
    IF I = {} THEN 0
    ELSE LET i == CHOOSE x \in I : TRUE
         IN  tasks[i].hoursWorked * tasks[i].rate + SumAmountAt(I \ {i})

IsInvoice == op = "displayInvoice" /\ ret.kind = "invoice"

\* ids of the tasks folded into line item g of the printed invoice
LineIds(g) == {ret.mergedTasks[g].tasks[j].id : j \in 1..Len(ret.mergedTasks[g].tasks)}

TicketOrEmpty(t) == IF t.ticketNumber = <<>> THEN "" ELSE t.ticketNumber[1]

SameLine(i, j) == \E g \in 1..Len(ret.mergedTasks) : i \in LineIds(g) /\ j \in LineIds(g)

----------------------------------------------------------------------------
(* Properties of grouping (checked under SpecGrouping) *)

\* C2: all tasks that the grouping puts into the same (client, billingDate)
\* bucket resolve to the same periodLabel.
C2_BucketHasOneLabel ==
    (op = "groupTasks" /\ ret.kind = "ok") =>
        \A c \in DOMAIN ret.grouped : \A k \in DOMAIN ret.grouped[c] :
            \A i, j \in 1..Len(ret.grouped[c][k]) :
                getBillingPeriod(ret.grouped[c][k][i].date, invoiceDates, tzOffset).periodLabel
                    = getBillingPeriod(ret.grouped[c][k][j].date, invoiceDates, tzOffset).periodLabel

\* C8: the grouping partitions its input: every task is in exactly one
\* bucket, the one of its client and of the billing date its date resolves
\* to; no bucket is empty; a bucket keeps the input order; no tasks, no buckets.
C8_GroupingPartitions ==
    (op = "groupTasks" /\ ret.kind = "ok") =>
        /\ \A i \in 1..Len(arg) :
              LET places == {<<c, k, j>> \in
                                UNION {UNION {{<<c, k, j>> : j \in 1..Len(ret.grouped[c][k])} :
                                                  k \in DOMAIN ret.grouped[c]} :
                                           c \in DOMAIN ret.grouped} :
                                ret.grouped[c][k][j] = arg[i]}
              IN  /\ Cardinality(places) = 1
                  /\ \A pl \in places :
                        /\ pl[1] = arg[i].client
                        /\ pl[2] = getBillingPeriod(arg[i].date, invoiceDates, tzOffset).billingDate
        /\ \A c \in DOMAIN ret.grouped :
              /\ DOMAIN ret.grouped[c] # {}
              /\ \A k \in DOMAIN ret.grouped[c] :
                    /\ Len(ret.grouped[c][k]) > 0
                    /\ \A j \in 1..Len(ret.grouped[c][k]) :
                          \E i \in 1..Len(arg) : arg[i] = ret.grouped[c][k][j]
                    /\ \A j1, j2 \in 1..Len(ret.grouped[c][k]) :
                          j1 < j2 => ret.grouped[c][k][j1].id < ret.grouped[c][k][j2].id
        /\ (arg = <<>>) => (DOMAIN ret.grouped = {})

\* two clients whose names differ only in case were kept apart, and a bucket
\* received the first and the third stored task
C8_Witness ==
    /\ op = "groupTasks"
    /\ ret.kind = "ok"
    /\ DOMAIN ret.grouped = {"Acme", "acme"}
    /\ \E c \in DOMAIN ret.grouped : \E k \in DOMAIN ret.grouped[c] :
          /\ Len(ret.grouped[c][k]) = 2
          /\ ret.grouped[c][k][1].id = 1
          /\ ret.grouped[c][k][2].id = 3

\* C9: displayInvoice finds nothing when no stored task has exactly the
\* requested client, and when none of the client's tasks resolves to the
\* requested billing date (so always when nothing is stored); otherwise it
\* prints an invoice built only from tasks of that client and billing date.
C9_NotFoundOrOwnTasks ==
    (op = "displayInvoice") =>
        /\ ({i \in 1..Len(tasks) : tasks[i].client = arg.client} = {})
               => ret.kind = "notFound"
        /\ (PeriodIdx(arg.client, arg.billingDate) = {}) => ret.kind = "notFound"
        /\ (tasks = <<>>) => ret.kind = "notFound"
        /\ (PeriodIdx(arg.client, arg.billingDate) # {}) =>
              /\ ret.kind = "invoice"
              /\ ret.client = arg.client
              /\ ret.invoiceDate = arg.billingDate
              /\ \A g \in 1..Len(ret.mergedTasks) :
                    LineIds(g) \subseteq PeriodIdx(arg.client, arg.billingDate)

\* an invoice was printed although the store also holds a task of the client
\* in another period and a task of a client whose name differs only in case
C9_Witness ==
    /\ IsInvoice
    /\ \E i \in 1..Len(tasks) :
          tasks[i].client = arg.client /\ i \notin PeriodIdx(arg.client, arg.billingDate)
    /\ \E i \in 1..Len(tasks) : tasks[i].client # arg.client

\* the stored tasks of the client asked for
OwnTasks == {i \in 1..Len(tasks) : tasks[i].client = arg.client}

\* date string a denotes an earlier year-month-day than b
EarlierDate(a, b) ==
    \/ YearOf(a) < YearOf(b)
    \/ YearOf(a) = YearOf(b) /\ MonthOf(a) < MonthOf(b)
    \/ YearOf(a) = YearOf(b) /\ MonthOf(a) = MonthOf(b) /\ DayOf(a) < DayOf(b)

\* C15: the list of billing periods of a client holds exactly the billing
\* dates that the tasks with exactly that client name resolve to, each once,
\* in ascending order; only those tasks are resolved; it is empty when the
\* client has no task.
C15_PeriodsOfClient ==
    (op = "getBillingPeriodsForClient") =>
        /\ ret.kind = "ok"
        /\ Range(ret.periods) =
               {getBillingPeriod(tasks[i].date, invoiceDates, tzOffset).billingDate :
                    i \in OwnTasks}
        /\ \A i, j \in 1..Len(ret.periods) :
               i < j => EarlierDate(ret.periods[i], ret.periods[j])
        /\ Range(ret.resolved) = {tasks[i].id : i \in OwnTasks}
        /\ (OwnTasks = {}) => ret.periods = <<>>

\* two tasks of the client fall into one period, and between them a task of
\* the client spelled in lower case was stored that falls into another period
C15_Witness ==
    /\ op = "getBillingPeriodsForClient"
    /\ arg.client = "Acme"
    /\ Len(tasks) = 3
    /\ OwnTasks = {1, 3}
    /\ Len(ret.periods) = 1
    /\ getBillingPeriod(tasks[2].date, invoiceDates, tzOffset).billingDate
           \notin Range(ret.periods)

----------------------------------------------------------------------------
(* Properties of the invoice of one period (checked under SpecInvoice) *)

\* C4: totalAmount is the sum over the period's tasks of hoursWorked times
\* the task's own rate, also when merged tasks carry different rates, and
\* totalHours is the sum of their hoursWorked.
C4_TotalsPerSourceTask ==
    IsInvoice =>
        /\ ret.totalAmount = SumAmountAt(PeriodIdx(arg.client, arg.billingDate))
        /\ ret.totalHours = SumHoursAt(PeriodIdx(arg.client, arg.billingDate))

\* C5: two tasks of the period share a line item exactly when their
\* activityType and their ticketNumber-or-empty are equal; there are as many
\* line items as distinct such pairs.
C5_LinesKeyedByPair ==
    IsInvoice =>
        /\ \A i, j \in PeriodIdx(arg.client, arg.billingDate) :
              SameLine(i, j) <=>
                  /\ tasks[i].activityType = tasks[j].activityType
                  /\ TicketOrEmpty(tasks[i]) = TicketOrEmpty(tasks[j])
        /\ Len(ret.mergedTasks) =
              Cardinality({<<tasks[i].activityType, TicketOrEmpty(tasks[i])>> :
                              i \in PeriodIdx(arg.client, arg.billingDate)})

\* C6: a line item's totalHours is the sum of the hours of its tasks, every
\* task of the period is in exactly one line item, the line's date is the
\* earliest date of its tasks and its rate is the rate of its first task in
\* the order of the bucket.
C6_LineItemAggregates ==
    IsInvoice =>
        /\ \A g \in 1..Len(ret.mergedTasks) :
              LET m == ret.mergedTasks[g]
                  first == SetMin(LineIds(g))
              IN  /\ m.totalHours = SumHoursAt(LineIds(g))
                  /\ Len(m.tasks) = Cardinality(LineIds(g))
                  /\ \E i \in LineIds(g) : tasks[i].date = m.date
                  /\ \A i \in LineIds(g) : SeqCompare(m.date, tasks[i].date) <= 0
                  /\ m.rate = tasks[first].rate
        /\ \A i \in PeriodIdx(arg.client, arg.billingDate) :
              Cardinality({g \in 1..Len(ret.mergedTasks) : i \in LineIds(g)}) = 1

\* a line item merged a later task that is dated earlier and has another rate
C6_Witness ==
    /\ IsInvoice
    /\ \E g \in 1..Len(ret.mergedTasks) :
          \E i, j \in LineIds(g) :
              /\ i < j
              /\ SeqCompare(tasks[j].date, tasks[i].date) < 0
              /\ tasks[i].rate # tasks[j].rate
              /\ ret.mergedTasks[g].date = tasks[j].date
              /\ ret.mergedTasks[g].rate = tasks[i].rate

\* C7 as stated, with <= on strings as the language defines it (code units):
\* adjacent line items a, b have a.date < b.date, or the same date and
\* a.activityType <= b.activityType.
C7_SortedByCodeUnits ==
    IsInvoice =>
        \A g \in 1..(Len(ret.mergedTasks) - 1) :
            LET a == ret.mergedTasks[g]
                b == ret.mergedTasks[g + 1]
            IN  \/ SeqCompare(a.date, b.date) < 0
                \/ /\ a.date = b.date
                   /\ SeqCompare(CodeUnits(a.activityType), CodeUnits(b.activityType)) <= 0

\* C7 amended: adjacent line items a, b have a.date < b.date, or the same
\* date and a.activityType not after b.activityType in the collation order
\* of localeCompare.
C7_SortedByCollation ==
    IsInvoice =>
        \A g \in 1..(Len(ret.mergedTasks) - 1) :
            LET a == ret.mergedTasks[g]
                b == ret.mergedTasks[g + 1]
            IN  \/ SeqCompare(a.date, b.date) < 0
                \/ /\ a.date = b.date
                   /\ LocaleCompare(a.activityType, b.activityType) <= 0

\* a line item inserted later was sorted before an earlier one with the same
\* date because of its activity type
C7_Witness ==
    /\ IsInvoice
    /\ Len(ret.mergedTasks) = 2
    /\ ret.mergedTasks[1].date = ret.mergedTasks[2].date
    /\ ret.mergedTasks[1].activityType # ret.mergedTasks[2].activityType
    /\ SetMin(LineIds(2)) < SetMin(LineIds(1))

----------------------------------------------------------------------------
(* Properties of a session (checked under SpecSession) *)

\* the stored task with the given id
StoredTask(id) == tasks[CHOOSE i \in 1..Len(tasks) : tasks[i].id = id]

\* C16: the rate printed for a stored task, and the rate its amount is
\* computed with, is the rate stored with the task, in every line item of an
\* invoice and in every row and period total of the task view, whatever
\* rates are configured when the invoice or the view is produced.
C16_StoredRateShown ==
    /\ IsInvoice =>
          \A g \in 1..Len(ret.mergedTasks) : \A id \in LineIds(g) :
              ret.mergedTasks[g].rate = StoredTask(id).rate
    /\ (op = "displayTasksByClient" /\ ret.kind = "view") =>
          \A k \in 1..Len(ret.sections) :
              LET rows == ret.sections[k].rows
              IN  /\ \A r \in 1..Len(rows) :
                        /\ rows[r].rate = StoredTask(rows[r].id).rate
                        /\ rows[r].total = StoredTask(rows[r].id).hoursWorked
                                               * StoredTask(rows[r].id).rate
                  /\ ret.sections[k].totalAmount =
                         SumAmountAt({i \in 1..Len(tasks) :
                                         \E r \in 1..Len(rows) : rows[r].id = tasks[i].id})

\* the operations that only read the stored tasks
ReadOnlyOps ==
    {"displayInvoice", "getClientsFromTasks", "getBillingPeriodsForClient",
     "displayTasksByClient", "groupTasks"}

\* C17: producing an invoice, listing the clients, listing the billing
\* periods or viewing the tasks leaves the task store as it was, and the list
\* handed to the listing functions is the stored list when they return; the
\* store changes only when a task is added.
C17_ReadingLeavesStore ==
    /\ [][(op' \in ReadOnlyOps) =>
             /\ tasks' = tasks
             /\ storeState' = storeState
             /\ (op' \in {"getClientsFromTasks", "getBillingPeriodsForClient"})
                    => arg'.tasks = tasks]_vars
    /\ [][(tasks' # tasks \/ storeState' # storeState) => op' = "addNewTask"]_vars

\* the tasks of two clients were viewed for one client only
C17_Witness ==
    /\ op = "displayTasksByClient"
    /\ arg.client = "Acme"
    /\ ret.kind = "view"
    /\ Len(tasks) = 2
    /\ tasks[1].client = "Beta"
    /\ tasks[2].client = "Acme"

\* C19: addTask appends: after a task has been added the store holds the
\* tasks it held before, unchanged and in their order, followed by the new
\* task, exactly the new task when there was no task file; the tasks of
\* successive calls are therefore listed in the order of the calls.
C19_StoreAppendOnly ==
    /\ [][(op' = "addNewTask") =>
             /\ storeState' = "present"
             /\ tasks' = (IF storeState = "missing" THEN <<>> ELSE tasks)
                             \o <<ret'.taskEntry>>]_vars
    /\ [](\A i \in 1..Len(tasks) : tasks[i].id = i)

\* a second task has been added to a store created by the first call
C19_Witness ==
    /\ op = "addNewTask"
    /\ Len(tasks) = 2
    /\ tasks[2] = ret.taskEntry
    /\ tasks[1] # tasks[2]
    /\ tasks[1].id = 1

----------------------------------------------------------------------------
(* Properties of the rate lookup (checked under SpecRates) *)

\* the typed names without the blanks around them, and all names with their
\* letters in lower case, written out
NameTrimmed(str) == IF str \in {" Acme ", " Acme"} THEN "Acme" ELSE str
NameFolded(str) ==
    CASE str \in {"Acme", "ACME", "acme"} -> "acme"
      [] str \in {" Acme ", " Acme"} -> " acme"
      [] str = "Beta" -> "beta"
      [] str = "Zed" -> "zed"
      [] OTHER -> str

\* the configured entries whose name is the trimmed input up to case
NameMatches ==
    {i \in 1..Len(clients) :
        NameFolded(clients[i].client) = NameFolded(NameTrimmed(arg.client))}

\* C20: getRateForClient returns the rate of the first configured client
\* whose name equals the trimmed input ignoring case, also when a defaultRate
\* argument is given; without such a client it returns the defaultRate
\* argument if one is given and the configured default rate otherwise.
C20_RateOfFirstMatch ==
    (op = "getRateForClient") =>
        IF NameMatches # {}
        THEN ret = clients[SetMin(NameMatches)].rate
        ELSE IF arg.defaultRate # <<>>
        THEN ret = arg.defaultRate[1]
        ELSE ret = defaultRate

\* a name typed with blanks around it matches two entries with different
\* rates, the second of them first in the configuration, and a defaultRate
\* argument is given
C20_Witness ==
    /\ op = "getRateForClient"
    /\ arg.client = " Acme "
    /\ arg.defaultRate = <<90>>
    /\ NameMatches = {1, 2}
    /\ clients[1].client = "ACME"
    /\ clients[1].rate # clients[2].rate
    /\ ret = clients[1].rate

----------------------------------------------------------------------------
(* Properties of the configuration (checked under SpecConfig) *)

NonEmptyArray(v) == v.type = "array" /\ Len(v.items) > 0

\* C18: every configuration that loadConfig returns, and so every schedule
\* that getInvoiceDates returns, has a non-empty array of invoice dates,
\* whatever the state of config.json and config.example.json; when the file
\* that was read holds no such array the schedule is [1, 15].
C18_LoadedScheduleNonEmpty ==
    /\ (op = "loadConfig") =>
          /\ ret.config # <<>>
          /\ NonEmptyArray(ret.config[1].invoiceDates)
          /\ (configFile.kind = "object" /\ ~NonEmptyArray(configFile.value.invoiceDates))
                 => ret.config[1].invoiceDates = ArrayValue(<<1, 15>>)
    /\ (op = "getInvoiceDates") =>
          /\ ret.kind = "ok"
          /\ NonEmptyArray(ret.value)

----------------------------------------------------------------------------
(* Properties of the configuration cache (checked under SpecCache) *)

ConfigCalls ==
    {"loadConfig", "getClients", "getDefaultRate", "getInvoiceDates", "getPaymentTerms"}

\* what a completed call of the configuration module shows of configuration c
ShownOf(call, c) ==
    CASE call = "loadConfig" -> [kind |-> "ok", config |-> <<c>>]
      [] call = "getClients" -> [kind |-> "ok", message |-> "", value |-> c.clients]
      [] call = "getDefaultRate" -> [kind |-> "ok", message |-> "", value |-> c.defaultRate]
      [] call = "getInvoiceDates" -> [kind |-> "ok", message |-> "", value |-> c.invoiceDates]
      [] call = "getPaymentTerms" -> [kind |-> "ok", message |-> "", value |-> c.paymentTerms]

\* C21: the configuration is memoized.  Every completed call of loadConfig
\* or of a getter leaves the configuration it returned in the cache of the
\* process, and every call made while the cache is filled returns the values
\* of that cached configuration, leaves the cache as it is and neither
\* reads nor writes config.json, whatever the file holds by then.
C21_ConfigMemoized ==
    /\ [](op \in ConfigCalls =>
             /\ cachedConfig # <<>>
             /\ ret = ShownOf(op, cachedConfig[1]))
    /\ [][(cachedConfig # <<>> /\ op' \in ConfigCalls) =>
             /\ cachedConfig' = cachedConfig
             /\ configFile' = configFile
             /\ ret' = ShownOf(op', cachedConfig[1])]_vars
----------------------------------------------------------------------------
(* Properties of the menu loop (checked under SpecMainFair) *)

\* a flow has printed a message that it found nothing, and nothing else
NotFoundShown == op \in MainFlows /\ ret.kind = "notFound"

\* the task file can be read and holds no task
NoTasksStored ==
    storeState \in {"missing", "present"} /\ loadTasks(storeState, tasks) = <<>>

\* the task file can be read and holds no task for the selection: a client
\* or "all", a billing date or <<>> for every period
NothingSelected(client, billingDate) ==
    /\ storeState \in {"missing", "present"}
    /\ invoiceDates # <<>>
    /\ ~\E i \in 1..Len(tasks) :
          /\ client = "all" \/ tasks[i].client = client
          /\ billingDate = <<>> \/ i \in PeriodIdx(tasks[i].client, billingDate)

\* C22: NotFound is recoverable in the menu loop.  When the view or invoice
\* flow starts on a store without tasks, or displayTasksByClient or
\* displayInvoice is reached with a selection for which the store holds no
\* task, the flow prints a not-found message instead of a table or an
\* invoice and the application runs on; from every such state the only step
\* is back to the main menu, and that step is taken.  The loop ends only by
\* 'exit' chosen at the main menu or by an error that was thrown.
C22_NotFoundReturnsToMenu ==
    /\ [][/\ (op = "start" /\ NoTasksStored /\ op' \notin {"start", "addNewTask", "exited"})
               => (op' \in {"view", "invoice"} /\ ret'.kind = "notFound")
          /\ (op \in MainPrompts /\ op' \in {"displayTasksByClient", "displayInvoice", "crashed"}
                /\ arg' # <<>> /\ NothingSelected(arg'.client, arg'.billingDate))
               => (op' \in {"displayTasksByClient", "displayInvoice"}
                     /\ ret'.kind = "notFound")
          /\ NotFoundShown => (op' = "start" /\ tasks' = tasks /\ storeState' = storeState)
          /\ (op' \in {"exited", "crashed"} /\ op' # op)
               => \/ op' = "exited" /\ op = "start"
                  \/ op' = "crashed" /\ ret'.kind = "error"]_vars
    /\ NotFoundShown ~> (op = "start")

\* the invoice flow found no task for the chosen client and billing date in
\* a store that holds tasks: another instance has replaced the list since
\* the periods were offered
C22_Witness ==
    /\ op = "displayInvoice"
    /\ ret.kind = "notFound"
    /\ Len(tasks) > 0
    /\ \E i \in 1..Len(tasks) : tasks[i].client = arg.client
----------------------------------------------------------------------------
(* Further properties of the billing functions (checked under SpecBilling) *)

\* C23: the range of days shown in the label returned by getBillingPeriod
\* contains the day of the month of the task's date:
\* periodStart <= day <= periodEnd.
C23_RangeContainsTaskDay ==
    (op = "getBillingPeriod" /\ ret.kind = "ok") =>
        \E periodStart \in 0..DayOf(arg), periodEnd \in DayOf(arg)..31 :
            LabelShowsRange(ret.periodLabel, <<periodStart, periodEnd>>)
\* C24: the billingDate returned by getBillingPeriod denotes a day of the
\* calendar: its month is one of the twelve and its day does not exceed the
\* number of days of that month in that year.
C24_BillingDateOnCalendar ==
    (op = "getBillingPeriod" /\ ret.kind = "ok") =>
        /\ MonthOf(ret.billingDate) \in 1..12
        /\ DayOf(ret.billingDate) \in
               1..MonthLength(YearOf(ret.billingDate), MonthOf(ret.billingDate))
----------------------------------------------------------------------------
(* Further properties of the invoice (checked under SpecInvoice) *)

\* what an invoice prints: its line items in order, each with date,
\* activity, ticket, hours and rate, the totals and the period label
PrintedInvoice(invoice) ==
    [lines |-> [g \in 1..Len(invoice.mergedTasks) |->
                   [date |-> invoice.mergedTasks[g].date,
                    activityType |-> invoice.mergedTasks[g].activityType,
                    ticketNumber |-> invoice.mergedTasks[g].ticketNumber,
                    totalHours |-> invoice.mergedTasks[g].totalHours,
                    rate |-> invoice.mergedTasks[g].rate]],
     totalHours |-> invoice.totalHours,
     totalAmount |-> invoice.totalAmount,
     periodLabel |-> invoice.periodLabel]

\* C25: the invoice of a client and billing date does not depend on the
\* order in which the tasks are stored: the same tasks stored with the first
\* two exchanged, or with the first moved to the end (the two reorderings
\* that generate every order), give an invoice with the same line items in
\* the same order, the same rates, totals and period label.
C25_StorageOrderIrrelevant ==
    IsInvoice =>
        \A reordered \in {SwapFirstTwo(tasks), RotateLeft(tasks)} :
            LET other == displayInvoice(arg.client, arg.billingDate, reordered,
                                        invoiceDates, paymentTerms, tzOffset)
            IN  /\ other.kind = "invoice"
                /\ PrintedInvoice(other) = PrintedInvoice(ret)
\* C26: for the same stored tasks, client and billing date, the totals of
\* the invoice equal the totals that the task view prints for that period:
\* the view has exactly one section for the period, and its total hours and
\* total amount are the invoice's totalHours and totalAmount.
C26_InvoiceTotalsAreViewTotals ==
    IsInvoice =>
        LET view == displayTasksByClient(arg.client, arg.billingDate,
                                         loadTasks(storeState, tasks),
                                         invoiceDates, tzOffset)
        IN  /\ view.kind = "view"
            /\ Len(view.sections) = 1
            /\ view.sections[1].client = arg.client
            /\ view.sections[1].billingDate = arg.billingDate
            /\ view.sections[1].totalHours = ret.totalHours
            /\ view.sections[1].totalAmount = ret.totalAmount
\* C27: the result of calculateDueDate does not depend on the time zone of
\* the host: a run with the same billing date and payment terms on a host
\* with any other UTC offset returns the same string.
C27_DueDateSameInEveryZone ==
    (op = "calculateDueDate") =>
        \A otherZone \in TzChoices :
            calculateDueDate(arg, paymentTerms, otherZone) = ret
\* date strings a and b denote the same or an earlier year-month-day
NotLaterDate(a, b) == a = b \/ EarlierDate(a, b)

\* the last day of the latest month drawn before month m of year y, at most
\* n months back, <<>> when there is none
RECURSIVE EndOfPreviousMonth(_, _, _)
EndOfPreviousMonth(y, m, n) ==
    LET py == IF m = 1 THEN y - 1 ELSE y
        pm == IF m = 1 THEN 12 ELSE m - 1
    IN  IF n = 0 THEN <<>>
        ELSE IF py \in Years /\ pm \in Months
        THEN FormatYMD(py, pm - 1, DaysInMonth(py, pm - 1))
        ELSE EndOfPreviousMonth(py, pm, n - 1)

\* the latest of the dates drawn that lies before dateStr, <<>> when
\* dateStr is the first of them
PreviousDate(dateStr) ==
    IF DayOf(dateStr) > 1
    THEN FormatYMD(YearOf(dateStr), MonthOf(dateStr) - 1, DayOf(dateStr) - 1)
    ELSE EndOfPreviousMonth(YearOf(dateStr), MonthOf(dateStr), 12 * Cardinality(Years))

\* C28: billing never precedes the work and preserves chronology: the
\* billing date of a date d is strictly later than d, and the billing date
\* of the date before d is not later than the billing date of d (compared
\* as year, month, day, under the same schedule; the order being
\* transitive, this covers every two dates d1 <= d2).
C28_BillingLaterAndMonotone ==
    (op = "getBillingPeriod" /\ ret.kind = "ok") =>
        /\ EarlierDate(arg, ret.billingDate)
        /\ LET d1 == PreviousDate(arg)
           IN  d1 # <<>> =>
                   NotLaterDate(getBillingPeriod(d1, invoiceDates, tzOffset).billingDate,
                                ret.billingDate)

\* a task of the last day of a year is billed in January of the next year,
\* and the day before it in the same month or later
C28_Witness ==
    /\ op = "getBillingPeriod"
    /\ arg = FormatYMD(2023, 11, 31)
    /\ invoiceDates = <<1, 31>>
    /\ ret.kind = "ok"
    /\ YMD(ret.billingDate) = <<2024, 1, 1>>
    /\ YMD(getBillingPeriod(FormatYMD(2023, 11, 30), invoiceDates, tzOffset).billingDate)
           = <<2023, 12, 31>>
----------------------------------------------------------------------------
(* Properties of addTask (checked under SpecStore) *)

\* the steps in which the task file is written
FileWritten == tasks' # tasks \/ storeState' # storeState

\* C29: when the task file exists but cannot be read or is not valid JSON,
\* addTask fails with that error and performs no write: the step in which
\* loadTasks returns ends the call with the error and leaves the file as it
\* was, a failed call takes no further step, and the file is written only
\* by the saveTasks of a call whose loadTasks succeeded; a missing file is
\* loaded as the empty list and the call goes on.
C29_FailedAddTaskWritesNothing ==
    [][/\ \A c \in Calls :
             (arg[c].pc = "loadTasks" /\ arg'[c] # arg[c]) =>
                 IF storeState \in {"unreadable", "unparsable"}
                 THEN /\ arg'[c].pc = "failed"
                      /\ arg'[c].error = loadTasksOutcome(storeState, tasks).message
                      /\ arg'[c].error # ""
                      /\ ~FileWritten
                 ELSE /\ arg'[c].pc = "saveTasks"
                      /\ storeState = "missing" => arg'[c].tasks = <<arg[c].task>>
       /\ \A c \in Calls : arg[c].pc = "failed" => arg'[c] = arg[c]
       /\ FileWritten =>
             \E c \in Calls : /\ arg[c].pc = "saveTasks"
                              /\ arg'[c].pc = "done"
                              /\ arg[c].error = ""]_vars

\* a call has failed on a task file that is not valid JSON while the other
\* call has not got any further either
C29_Witness ==
    /\ storeState = "unparsable"
    /\ arg[1].pc = "failed"
    /\ arg[1].error = "SyntaxError: Unexpected token"
    /\ arg[2].pc \in {"idle", "loadTasks", "failed"}

\* C30: no added task is lost when two addTask calls overlap: once both
\* calls have completed, the store holds both new tasks and every task that
\* was stored before.
C30_NoAddedTaskLost ==
    (\A c \in Calls : arg[c].pc = "done") =>
        /\ \A c \in Calls : arg[c].task \in Range(tasks)
        /\ \A i \in 1..Len(ret) : ret[i] \in Range(tasks)
====
